---- MODULE Spec2Model ----
(***************************************************************************)
(* Model of the alert engine (src/utils/alertEngine.ts, second variant,    *)
(* lines 392-843 of the concatenated source), the performance tracker      *)
(* (PerformanceTracker) and the cluster-change effect of the               *)
(* MonitoringProvider that owns both.                                      *)
(*                                                                         *)
(* Times are epoch milliseconds (Date.now()).  An optional value           *)
(* (undefined / null in the source) is the empty sequence, a present one   *)
(* the one-element sequence.  A JavaScript Map is a function whose domain  *)
(* is the set of keys present.                                             *)
(***************************************************************************)
EXTENDS Integers, Sequences, FiniteSets, TLC

VARIABLES
    now,                      \* Date.now()
    activeCluster,            \* MonitoringProvider: activeClusterLabel
    rules,                    \* AlertEngine.rules
    settings,                 \* AlertEngine.settings
    activeAlerts,             \* AlertEngine.activeAlerts: keys in insertion order
    heap,                     \* the AlertInstance objects, by id (shared by map and history)
    alertHistory,             \* AlertEngine.alertHistory: references, newest first
    alertConditionStartTime,  \* AlertEngine.alertConditionStartTime
    lastEvaluationTime,       \* AlertEngine.lastEvaluationTime
    stored,                   \* localStorage: the three alert keys
    newAlerts,                \* evaluateAlerts: the alerts pushed to newAlerts by the last tick
    notified,                 \* rule ids sendBrowserNotification was called for by the last tick
    threw,                    \* the last tick ended by an exception instead of returning
    dwellCleared,             \* rule ids whose dwell start time the last tick deleted on the condition-false branch
    condTrueSince,            \* history variable: start of each rule's current run of condition-true observations
    dwellCluster,             \* history variable: the cluster a dwell start time was recorded on
    trackers,                 \* every PerformanceTracker constructed; the last is performanceTrackerRef.current
    perfStore,                \* sessionStorage['elasticsearch-performance-data']
    lastMetrics,              \* what the last addSnapshot returned
    snapshots,                \* number of addSnapshot calls so far
    fresh,                    \* history variable: since clearData, a tracker constructed over an empty store at that moment and its store
    writesAccepted,           \* localStorage: how many of the three setItem calls of a save succeed before one throws
    inFlight,                 \* MonitoringProvider: the fetchAll calls awaiting their requests, oldest first
    abortControllerRef,       \* MonitoringProvider: abortControllerRef.current, by the fetch that created it
    fetchCount,               \* number of fetchAll calls that created an abort controller
    pollInterval,             \* MonitoringProvider: pollInterval
    nextPollAt,               \* when the interval timer of the polling effect fires next, while it is set
    initialLoadAt,            \* when the timer of the initial-load effect fires, while it is pending
    error,                    \* MonitoringProvider: error
    connectionFailed,         \* MonitoringProvider: connectionFailed
    evaluated                 \* the snapshot the last step passed to evaluateAlerts, if it called it

engineVars == <<rules, settings, activeAlerts, heap, alertHistory,
                alertConditionStartTime, lastEvaluationTime, stored,
                condTrueSince, dwellCluster, writesAccepted>>
tickVars == <<newAlerts, notified, threw, dwellCleared>>
trackerVars == <<trackers, perfStore, lastMetrics, snapshots, fresh>>
fetchVars == <<inFlight, abortControllerRef, fetchCount, pollInterval, nextPollAt,
               initialLoadAt, error, connectionFailed, evaluated>>
vars == <<now, activeCluster, engineVars, tickVars, trackerVars, fetchVars>>

----------------------------------------------------------------------------
(* Bounds of the model *)

\* Ticks happen within this many 15-second units after the start.
MaxElapsedUnits == 4
\* At most this many PerformanceTracker objects are constructed.
MaxTrackers == 2
\* At most this many addSnapshot calls.
MaxSnapshots == 3

StartTime == 1000 * 1000
MaxTime == StartTime + MaxElapsedUnits * (15 * 1000)
\* Time between two evaluateAlerts ticks: half the dwell, and the dwell.
TickSteps == {15 * 1000, 30 * 1000}
Clusters == {"A", "B"}

----------------------------------------------------------------------------
(* Values *)

None == <<>>
Some(x) == <<x>>

EmptyMap == [k \in {} |-> 0]
MapSet(m, k, v) == [x \in (DOMAIN m) \cup {k} |-> IF x = k THEN v ELSE m[x]]
MapDelete(m, k) == [x \in (DOMAIN m) \ {k} |-> m[x]]

RECURSIVE SumSeq(_)
SumSeq(s) == IF s = <<>> THEN 0 ELSE Head(s) + SumSeq(Tail(s))

Range(s) == {s[i] : i \in DOMAIN s}

\* A JavaScript number that is a quotient is kept exact: <<n, d>> is n / d, d > 0,
\* in lowest terms.
RECURSIVE Gcd(_, _)
Gcd(a, b) == IF b = 0 THEN a ELSE Gcd(b, a % b)

Abs(x) == IF x < 0 THEN 0 - x ELSE x

Rat(n, d) ==
    LET g == Gcd(Abs(n), Abs(d))
        sg == IF d < 0 THEN 0 - 1 ELSE 1
    IN  IF n = 0 THEN <<0, 1>> ELSE <<sg * (n \div g), sg * (d \div g)>>

\* a / (n / d) for an integer a and a quotient n / d # 0.
IntDivRat(a, q) ==
    LET g == Gcd(Abs(a), Abs(q[1]))
    IN  IF a = 0 THEN <<0, 1>> ELSE Rat((a \div g) * q[2], q[1] \div g)

RatZero == <<0, 1>>
RatOfInt(k) == <<k, 1>>
RatIsNeg(q) == q[1] < 0
\* q > k, for an integer k >= 0.
RatGreaterInt(q, k) ==
    q[1] >= 0 /\ ((q[1] \div q[2]) > k \/ ((q[1] \div q[2]) = k /\ q[1] % q[2] > 0))
\* q < k, for an integer k > 0.
RatLessInt(q, k) == q[1] < 0 \/ (q[1] \div q[2]) < k

\* Math.max(0, x) on an integer.
Max0(x) == IF x > 0 THEN x ELSE 0
\* Math.max(0, q) on a quotient.
RatMax0(q) == IF RatIsNeg(q) THEN RatZero ELSE q

----------------------------------------------------------------------------
(* Rule catalogue and settings: config/alerts.ts *)

\* The two default rules on clusterResources.cpuUsage, in catalogue order.
DEFAULT_ALERT_RULES ==
    << [id |-> "high-cpu-usage", name |-> "Critical CPU Usage",
        severity |-> "critical", threshold |-> 90,
        metricPath |-> "clusterResources.cpuUsage", condition |-> "greater_than",
        enabled |-> TRUE, category |-> "resource", cooldownMinutes |-> 0],
       [id |-> "high-cpu-load", name |-> "High CPU Load",
        severity |-> "warning", threshold |-> 80,
        metricPath |-> "clusterResources.cpuUsage", condition |-> "greater_than",
        enabled |-> TRUE, category |-> "resource", cooldownMinutes |-> 0] >>

DEFAULT_ALERT_SETTINGS ==
    [enabled |-> TRUE, browserNotifications |-> TRUE, soundAlerts |-> FALSE,
     maxHistoryDays |-> 30]

RuleIds == {DEFAULT_ALERT_RULES[i].id : i \in DOMAIN DEFAULT_ALERT_RULES}

ALERT_DELAY_MS == 30 * 1000

\* Snapshots handed to evaluateAlerts: nodeStats.nodes empty, or the
\* os.cpu.percent of each node (0 = no reading).
Snapshots ==
    { [nodes |-> Some(<<>>)], [nodes |-> Some(<<50>>)],
      [nodes |-> Some(<<85>>)], [nodes |-> Some(<<0, 95>>)] }

----------------------------------------------------------------------------
(* AlertEngine: value resolution and condition *)

\* The fields of the snapshot's performanceMetrics, by metric path.
MetricOfPath(path) ==
    CASE path = "performanceMetrics.indexingRate" -> "indexingRate"
      [] path = "performanceMetrics.searchRate" -> "searchRate"
      [] path = "performanceMetrics.indexLatency" -> "indexLatency"
      [] path = "performanceMetrics.searchLatency" -> "searchLatency"
      [] OTHER -> ""

\* extractMetricValue, for the derived paths clusterResources.cpuUsage and
\* clusterResources.storagePercent (the nodes of the snapshots carry no fs
\* totals), for the paths into performanceMetrics, whose values are quotients,
\* and for a path the snapshot does not hold.  The inputs make the average exact.
ExtractMetricValue(data, path) ==
    IF path = "clusterResources.cpuUsage"
    THEN IF data.nodes = None THEN None
         ELSE LET nodes == data.nodes[1]
                  cpuValues == SelectSeq(nodes, LAMBDA c : c > 0)
              IN  IF Len(nodes) = 0 THEN None
                  ELSE IF Len(cpuValues) > 0
                       THEN Some(SumSeq(cpuValues) \div Len(cpuValues))
                       ELSE Some(0)
    ELSE IF path = "clusterResources.storagePercent"
    THEN IF data.nodes = None THEN None
         ELSE IF Len(data.nodes[1]) = 0 THEN None ELSE Some(0)
    ELSE IF MetricOfPath(path) # ""
    THEN IF "performanceMetrics" \in DOMAIN data
         THEN Some(data.performanceMetrics[MetricOfPath(path)])
         ELSE None
    ELSE None

\* Lines 603-618 on a value of performanceMetrics, a quotient q, and an integer
\* threshold k >= 0.  Math.abs(q) < 0.001 is |n| * 1000 < d.
EvaluateQuotient(condition, q, k) ==
    CASE condition = "greater_than" -> RatGreaterInt(q, k)
      [] condition = "less_than" -> RatLessInt(q, k)
      [] condition = "equals" ->
            IF k = 0 THEN Abs(q[1]) <= (q[2] - 1) \div 1000
            ELSE q = RatOfInt(k)
      [] condition = "not_equals" -> q # RatOfInt(k)
      [] OTHER -> FALSE

\* evaluateRuleCondition on a numeric value.
EvaluateRuleCondition(rule, data) ==
    LET currentValue == ExtractMetricValue(data, rule.metricPath)
    IN  IF ~rule.enabled THEN FALSE
        ELSE IF currentValue = None THEN FALSE
        ELSE IF MetricOfPath(rule.metricPath) # ""
        THEN EvaluateQuotient(rule.condition, currentValue[1], rule.threshold)
        ELSE LET numericValue == currentValue[1]
             IN  CASE rule.condition = "greater_than" -> numericValue > rule.threshold
                   [] rule.condition = "less_than" -> numericValue < rule.threshold
                   [] rule.condition = "equals" -> numericValue = rule.threshold
                   [] rule.condition = "not_equals" -> numericValue # rule.threshold
                   [] OTHER -> FALSE

\* createAlertInstance: the id is `${rule.id}-${Date.now()}`.
CreateAlertInstance(rule, currentValue, clusterName, t) ==
    [id |-> <<rule.id, t>>, ruleId |-> rule.id, ruleName |-> rule.name,
     severity |-> rule.severity, status |-> "active",
     currentValue |-> currentValue, threshold |-> rule.threshold,
     triggeredAt |-> t, firstTriggeredAt |-> t, count |-> 1,
     resolvedAt |-> None, snoozedUntil |-> None,
     category |-> rule.category, clusterName |-> clusterName]

\* Line 659: Array.from(activeAlerts.values()).find(alert => alert.ruleId === rule.id),
\* the first instance of the rule in insertion order, whatever its status.
ExistingAlert(e, rule) ==
    LET hits == SelectSeq(e.activeAlerts, LAMBDA id : e.heap[id].ruleId = rule.id)
    IN  IF hits = <<>> THEN None ELSE Some(Head(hits))

\* Lines 705-706: the first instance of the rule with status active.
ActiveAlertOf(e, rule) ==
    LET hits == SelectSeq(e.activeAlerts,
                    LAMBDA id : e.heap[id].ruleId = rule.id
                                /\ e.heap[id].status = "active")
    IN  IF hits = <<>> THEN None ELSE Some(Head(hits))

\* sendBrowserNotification(alert), called from the loop with no try/catch: the
\* call is recorded, and an exception of the sink ends evaluateAlerts.
SendBrowserNotification(e, rule, outcome) ==
    [e EXCEPT !.notified = Append(@, rule.id),
              !.threw = (outcome = "throws")]

\* A guard that does not look at the severity.
ShouldNotify_AnySeverity(rule, c) == c.settings.browserNotifications

\* Lines 673 and 693: the guard of the notification.
ShouldNotify(rule, c) ==
    rule.severity = "critical" /\ c.settings.browserNotifications

MaybeNotify(e, rule, c) ==
    IF ShouldNotify(rule, c) THEN SendBrowserNotification(e, rule, c.outcome) ELSE e

\* A dwell test that needs more than the delay.
DwellElapsed_Strict(t, conditionStartTime) ==
    t - conditionStartTime > ALERT_DELAY_MS

\* Line 683: the dwell has elapsed.
DwellElapsed(t, conditionStartTime) ==
    t - conditionStartTime >= ALERT_DELAY_MS

\* A re-activation that leaves the count as it is.
Reactivate_KeepsCount(a, t) ==
    [a EXCEPT !.status = "active", !.resolvedAt = None, !.triggeredAt = t]

\* Lines 667-676: an existing instance that is not active becomes active again.
Reactivate(a, t) ==
    [a EXCEPT !.status = "active", !.resolvedAt = None, !.triggeredAt = t,
              !.count = (IF @ = 0 THEN 1 ELSE @) + 1]

\* Lines 662-677: condition true, the rule has an instance.
OnConditionTrueExisting(e, rule, id, data, c) ==
    LET currentValue == ExtractMetricValue(data, rule.metricPath)
    IN  IF currentValue = None THEN e
        ELSE LET e1 == [e EXCEPT !.heap[id].currentValue = currentValue[1]]
             IN  IF e1.heap[id].status # "active"
                 THEN MaybeNotify(
                        [e1 EXCEPT !.heap[id] = Reactivate(@, c.now),
                                   !.newAlerts = Append(@, id)], rule, c)
                 ELSE e1

\* Lines 687-695: the new instance enters the map, the history and the result.
Materialize(e, rule, currentValue, c) ==
    LET a == CreateAlertInstance(rule, currentValue, c.clusterName, c.now)
    IN  MaybeNotify(
          [e EXCEPT !.heap = MapSet(@, a.id, a),
                    !.activeAlerts = Append(@, a.id),
                    !.alertHistory = <<a.id>> \o @,
                    !.newAlerts = Append(@, a.id),
                    !.lastEvaluationTime = MapSet(@, rule.id, c.now),
                    !.alertConditionStartTime = MapDelete(@, rule.id),
                    !.dwellCluster = MapDelete(@, rule.id)], rule, c)

\* A check for a new alert that also waits for the rule's cooldown since the
\* rule's last alert.
EvaluateRuleForNewAlert_Cooldown(rule, data, e, c) ==
    /\ EvaluateRuleCondition(rule, data)
    /\ \/ rule.id \notin DOMAIN e.lastEvaluationTime
       \/ ~((c.now - e.lastEvaluationTime[rule.id]) \div (60 * 1000) < rule.cooldownMinutes)

\* evaluateRuleForNewAlert: the condition only; the engine's maps and the time
\* are not consulted.
EvaluateRuleForNewAlert(rule, data, e, c) == EvaluateRuleCondition(rule, data)

\* Lines 678-699: condition true, the rule has no instance.
OnConditionTrueNew(e, rule, data, c) ==
    IF rule.id \notin DOMAIN e.alertConditionStartTime
          \/ e.alertConditionStartTime[rule.id] = 0
    THEN [e EXCEPT !.alertConditionStartTime = MapSet(@, rule.id, c.now),
                   !.dwellCluster = MapSet(@, rule.id, c.clusterName)]
    ELSE IF DwellElapsed(c.now, e.alertConditionStartTime[rule.id])
    THEN IF EvaluateRuleForNewAlert(rule, data, e, c)
         THEN LET currentValue == ExtractMetricValue(data, rule.metricPath)
              IN  IF currentValue # None
                  THEN Materialize(e, rule, currentValue[1], c)
                  ELSE e
         ELSE e
    ELSE e

\* A condition-false branch that keeps the dwell start time.
ClearConditionStart_Keeps(e, rule) == e

\* Line 702: the dwell tracker of the rule is dropped.
ClearConditionStart(e, rule) ==
    [e EXCEPT !.alertConditionStartTime = MapDelete(@, rule.id),
              !.dwellCluster = MapDelete(@, rule.id),
              !.dwellCleared = IF rule.id \in DOMAIN e.alertConditionStartTime
                               THEN @ \cup {rule.id} ELSE @]

\* A resolution that also deletes the instance from the map.
ResolveAlert_Deletes(e, id, t) ==
    [e EXCEPT !.heap[id].status = "resolved", !.heap[id].resolvedAt = Some(t),
              !.activeAlerts = SelectSeq(@, LAMBDA x : x # id)]

\* Lines 708-711: the active instance becomes resolved and stays where it is.
ResolveAlert(e, id, t) ==
    [e EXCEPT !.heap[id].status = "resolved", !.heap[id].resolvedAt = Some(t)]

\* Lines 700-712: condition false.
OnConditionFalse(e, rule, c) ==
    LET e1 == ClearConditionStart(e, rule)
        activeAlert == ActiveAlertOf(e1, rule)
    IN  IF activeAlert # None /\ e1.heap[activeAlert[1]].status = "active"
        THEN ResolveAlert(e1, activeAlert[1], c.now)
        ELSE e1

\* The history variable condTrueSince follows what the loop observed.
Observe(e, rule, conditionMet, c) ==
    IF conditionMet
    THEN IF rule.id \in DOMAIN e.condTrueSince THEN e
         ELSE [e EXCEPT !.condTrueSince = MapSet(@, rule.id, c.now)]
    ELSE [e EXCEPT !.condTrueSince = MapDelete(@, rule.id)]

\* Lines 656-713: the body of the loop for one rule.
EvalRule(e, rule, data, c) ==
    LET conditionMet == EvaluateRuleCondition(rule, data)
        existingAlert == ExistingAlert(e, rule)
        o == Observe(e, rule, conditionMet, c)
    IN  IF conditionMet
        THEN IF existingAlert # None
             THEN OnConditionTrueExisting(o, rule, existingAlert[1], data, c)
             ELSE OnConditionTrueNew(o, rule, data, c)
        ELSE OnConditionFalse(o, rule, c)

\* for (const rule of this.rules): an exception leaves the loop.
RECURSIVE EvalLoop(_, _, _, _, _)
EvalLoop(e, rs, i, data, c) ==
    IF i > Len(rs) \/ e.threw THEN e
    ELSE EvalLoop(EvalRule(e, rs[i], data, c), rs, i + 1, data, c)

\* JSON.stringify of rules, settings and history into the three keys.
Serialized(rs, st, hp, hist) ==
    [rules |-> Some(rs), settings |-> Some(st),
     history |-> Some([i \in DOMAIN hist |-> hp[hist[i]]])]

\* A saveToStorage without its try/catch: a setItem that throws ends the caller.
SaveToStorageThrows_Uncaught == writesAccepted < 3

\* saveToStorage ends by an exception: never, the three setItem calls are inside
\* its try and the catch block logs.
SaveToStorageThrows == FALSE

\* A save that writes the rules and the settings and an empty history.
SaveToStorage_NoHistory(rs, st, hp, hist) ==
    [rules |-> Some(rs), settings |-> Some(st), history |-> Some(<<>>)]

\* saveToStorage: the three setItem calls in order inside one try; the first
\* that throws ends the save, and the exception is caught and logged.
SaveToStorage(rs, st, hp, hist) ==
    LET s == Serialized(rs, st, hp, hist)
    IN  [rules |-> IF writesAccepted >= 1 THEN s.rules ELSE stored.rules,
         settings |-> IF writesAccepted >= 2 THEN s.settings ELSE stored.settings,
         history |-> IF writesAccepted >= 3 THEN s.history ELSE stored.history]

\* A value of a localStorage key that JSON.parse rejects.
Unparsable == <<"{", "not JSON">>

DayMs == 24 * 60 * 60 * 1000

\* cleanOldHistory: triggeredAt > now - maxHistoryDays days, that is, fewer than
\* maxHistoryDays whole days have passed since triggeredAt.
CleanOldHistory(history, st, t) ==
    SelectSeq(history, LAMBDA a : (t - a.triggeredAt) \div DayMs < st.maxHistoryDays)

\* Lines 422-437: the deprecated rule is dropped, then the two renames in order.
MigrateRule(r) ==
    LET r1 == IF r.id = "medium-disk-usage" \/ r.name = "Medium Disk Usage"
              THEN [r EXCEPT !.id = "high-disk-usage", !.name = "High Disk Usage"]
              ELSE r
    IN  IF r1.id = "low-search-activity" \/ r1.name = "Low Search Activity"
        THEN [r1 EXCEPT !.id = "no-search-activity", !.name = "No Search Activity"]
        ELSE r1
MigrateRules(rs) ==
    LET kept == SelectSeq(rs, LAMBDA r : r.id # "high-document-count"
                                         /\ r.name # "High Document Count")
    IN  [i \in DOMAIN kept |-> MigrateRule(kept[i])]

\* Lines 446-463: the same on ruleId and ruleName of the history entries.
MigrateEntry(a) ==
    LET a1 == IF a.ruleId = "medium-disk-usage" \/ a.ruleName = "Medium Disk Usage"
              THEN [a EXCEPT !.ruleId = "high-disk-usage", !.ruleName = "High Disk Usage"]
              ELSE a
    IN  IF a1.ruleId = "low-search-activity" \/ a1.ruleName = "Low Search Activity"
        THEN [a1 EXCEPT !.ruleId = "no-search-activity", !.ruleName = "No Search Activity"]
        ELSE a1
MigrateHistory(h) ==
    LET kept == SelectSeq(h, LAMBDA a : a.ruleId # "high-document-count"
                                        /\ a.ruleName # "High Document Count")
    IN  [i \in DOMAIN kept |-> MigrateEntry(kept[i])]

\* The fields of a new AlertEngine before its constructor body runs.
FieldInitializers ==
    [rules |-> <<>>, settings |-> DEFAULT_ALERT_SETTINGS, alertHistory |-> <<>>]

\* The catch block of loadFromStorage: rules and settings become the defaults;
\* alertHistory is not assigned there.
LoadFailed(fields) ==
    [fields EXCEPT !.rules = DEFAULT_ALERT_RULES, !.settings = DEFAULT_ALERT_SETTINGS]

\* loadFromStorage at time t.  getItem throws (readOutcome "throws"), or each
\* key is absent, holds a text JSON.parse rejects, or holds a value; the first
\* exception enters the catch block with what has been assigned so far.
LoadFromStorage(store, t, readOutcome) ==
    LET f0 == FieldInitializers
    IN  IF readOutcome = "throws" \/ store.rules = Unparsable THEN LoadFailed(f0)
        ELSE LET f1 == [f0 EXCEPT !.rules =
                           MigrateRules(IF store.rules = None THEN DEFAULT_ALERT_RULES
                                        ELSE store.rules[1])]
             IN  IF store.settings = Unparsable THEN LoadFailed(f1)
                 ELSE LET f2 == [f1 EXCEPT !.settings =
                                    IF store.settings = None THEN DEFAULT_ALERT_SETTINGS
                                    ELSE store.settings[1]]
                      IN  IF store.history = Unparsable THEN LoadFailed(f2)
                          ELSE [f2 EXCEPT !.alertHistory =
                                   CleanOldHistory(
                                     MigrateHistory(IF store.history = None THEN <<>>
                                                    ELSE store.history[1]),
                                     f2.settings, t)]

\* Objects no longer referenced by the map or the history are gone.
Reachable(hp, act, hist) ==
    [id \in (Range(act) \cup Range(hist)) |-> hp[id]]

----------------------------------------------------------------------------
(* PerformanceTracker *)

maxHistorySize == 120
maxChartSize == 60
cleanupInterval == 5 * 60 * 1000
MIN_TIME_DIFF_SECONDS == 1
MAX_RATE_PER_SEC == 50000000
MAX_LATENCY_MS == 300000
\* saveToStorage keeps the last 50 history entries.
SavedHistorySize == 50
\* cleanup drops what is older than 10 minutes.
RetentionMs == 10 * 60 * 1000

ZeroMetrics ==
    [indexingRate |-> RatZero, searchRate |-> RatZero,
     indexLatency |-> RatZero, searchLatency |-> RatZero]

\* A cap that reports the cap itself for a rate above it.
CapRate_Clamps(rate) ==
    IF rate[1] \div rate[2] >= 50000000 THEN <<50000000, 1>> ELSE rate

\* Lines 145-146: a rate above the cap is reported as 0.
CapRate(rate) == IF RatGreaterInt(rate, MAX_RATE_PER_SEC) THEN RatZero ELSE rate
\* Lines 147-148: a latency above the cap is reported as the cap.
CapLatency(latency) ==
    IF RatGreaterInt(latency, MAX_LATENCY_MS) THEN RatOfInt(MAX_LATENCY_MS) ELSE latency

\* A delta that takes a counter that went down for activity.
CounterDiff_Abs(cur, prev) == IF cur < prev THEN prev - cur ELSE cur - prev

\* A delta that is not clamped.
CounterDiff_Raw(cur, prev) == cur - prev

\* Lines 130-133: the clamped delta of a cumulative counter.
CounterDiff(cur, prev) == Max0(cur - prev)

\* Lines 136-139: delta time / delta ops of the interval.
Latency(timeDiffMs, opsDiff) ==
    IF opsDiff > 0 THEN Rat(timeDiffMs, opsDiff) ELSE RatZero

\* Lines 141-142: Math.max(0, opsDiff / timeDiffSeconds).
Rate(opsDiff, timeDiffSeconds) == RatMax0(IntDivRat(opsDiff, timeDiffSeconds))

\* A guard that rejects only a time difference that is not positive.
TooClose_NotPositive(timeDiffSeconds) == ~(timeDiffSeconds[1] > 0)

\* Line 121: the interval is not trusted.
TooClose(timeDiffSeconds) ==
    ~(timeDiffSeconds[1] > 0) \/ RatLessInt(timeDiffSeconds, MIN_TIME_DIFF_SECONDS)

\* The oldest entry in place of the one before the latest.
Previous_First(history) == history[1]

\* Line 117: the entry before the latest.
Previous(history) == history[Len(history) - 1]

\* calculateCurrentMetrics.
CalculateCurrentMetrics(history) ==
    IF Len(history) < 2 THEN ZeroMetrics
    ELSE LET current == history[Len(history)]
             previous == Previous(history)
             timeDiffSeconds == Rat(current.timestamp - previous.timestamp, 1000)
         IN  IF TooClose(timeDiffSeconds) THEN ZeroMetrics
             ELSE LET indexingOpsDiff == CounterDiff(current.totalIndexingOps, previous.totalIndexingOps)
                      searchOpsDiff == CounterDiff(current.totalSearchOps, previous.totalSearchOps)
                      indexTimeDiffMs == CounterDiff(current.totalIndexTimeMs, previous.totalIndexTimeMs)
                      searchTimeDiffMs == CounterDiff(current.totalSearchTimeMs, previous.totalSearchTimeMs)
                  IN  [indexingRate |-> CapRate(Rate(indexingOpsDiff, timeDiffSeconds)),
                       searchRate |-> CapRate(Rate(searchOpsDiff, timeDiffSeconds)),
                       indexLatency |-> CapLatency(Latency(indexTimeDiffMs, indexingOpsDiff)),
                       searchLatency |-> CapLatency(Latency(searchTimeDiffMs, searchOpsDiff))]

\* A slice that drops nothing.
LastN_All(s, n) == s

\* slice(-n): the last n elements.
LastN(s, n) == IF Len(s) > n THEN SubSeq(s, Len(s) - n + 1, Len(s)) ELSE s

\* Lines 60-74: the cluster-wide totals of one snapshot.  origin is a history
\* variable: the cluster whose counters the entry holds.
HistoryEntry(nodeStats, t, cluster) ==
    [timestamp |-> t,
     totalIndexingOps |-> SumSeq([i \in DOMAIN nodeStats |-> nodeStats[i].index_total]),
     totalSearchOps |-> SumSeq([i \in DOMAIN nodeStats |-> nodeStats[i].query_total]),
     totalIndexTimeMs |-> SumSeq([i \in DOMAIN nodeStats |-> nodeStats[i].index_time_in_millis]),
     totalSearchTimeMs |-> SumSeq([i \in DOMAIN nodeStats |-> nodeStats[i].query_time_in_millis]),
     origin |-> cluster]

\* saveToStorage of the tracker: the value written to sessionStorage.
TrackerSaved(tr) ==
    Some([history |-> LastN(tr.history, SavedHistorySize), chartData |-> tr.chartData])

\* A cleanup that filters the history and leaves the chart buffer as it is.
Cleaned_HistoryOnly(tr, t) ==
    [tr EXCEPT !.history = SelectSeq(@, LAMBDA x : x.timestamp > t - RetentionMs)]

\* cleanup, without its save.
Cleaned(tr, t) ==
    LET cutoffTime == t - RetentionMs
    IN  [tr EXCEPT !.history = SelectSeq(@, LAMBDA x : x.timestamp > cutoffTime),
                   !.chartData = SelectSeq(@, LAMBDA x : x.timestamp > cutoffTime)]

\* loadFromStorage: what a new tracker holds after reading the store (the entries
\* the tracker wrote itself pass the shape validation when their timestamp is truthy).
Loaded(store, t) ==
    LET empty == [history |-> <<>>, chartData |-> <<>>, nextSweepAt |-> t + cleanupInterval]
    IN  IF store = None THEN empty
        ELSE Cleaned([empty EXCEPT
                        !.history = SelectSeq(store[1].history, LAMBDA x : x.timestamp # 0),
                        !.chartData = SelectSeq(store[1].chartData, LAMBDA x : x.timestamp # 0)],
                     t)

\* new PerformanceTracker(): loadFromStorage, whose cleanup saves when the store
\* held something, and the interval timer.
NewTracker(store, t) == Loaded(store, t)
StoreAfterNew(store, t) == IF store = None THEN store ELSE TrackerSaved(Loaded(store, t))

\* Lines 162-165: { timestamp, ...metrics }, with the entry's history variable.
ChartPoint(entry, metrics) ==
    [timestamp |-> entry.timestamp, indexingRate |-> metrics.indexingRate,
     searchRate |-> metrics.searchRate, indexLatency |-> metrics.indexLatency,
     searchLatency |-> metrics.searchLatency, origin |-> entry.origin]

\* addSnapshot on one tracker: push, truncate, compute, chart point.
Pushed(tr, entry) ==
    LET h == LastN(Append(tr.history, entry), maxHistorySize)
        metrics == CalculateCurrentMetrics(h)
        point == ChartPoint(entry, metrics)
    IN  [tr EXCEPT !.history = h,
                   !.chartData = LastN(Append(@, point), maxChartSize)]

Current == trackers[Len(trackers)]

\* nodeStats answers of a cluster: per node index_total, index_time_in_millis,
\* query_total, query_time_in_millis.
Node(it, itm, qt, qtm) ==
    [index_total |-> it, index_time_in_millis |-> itm,
     query_total |-> qt, query_time_in_millis |-> qtm]
NodeStatsAnswers ==
    { <<Node(1000, 5000, 200, 400)>>,
      <<Node(700, 2500, 50, 300), Node(500, 1500, 50, 200)>> }
\* Date.now() between two addSnapshot calls: a clock set back, a short interval,
\* the poll interval, a pause of six minutes.
SnapshotSteps == {0 - 1000, 500, 10 * 1000, 6 * 60 * 1000}

----------------------------------------------------------------------------
(* MonitoringProvider: the state of the fetch machinery at mount *)

apiConfig == [pollIntervalMs |-> 10000, requestTimeoutMs |-> 10000]
\* The delay of the initial-load effect's timer.
InitialLoadDelay == 100

\* The interval timer the polling effect sets when it runs at time t.
PollingEffect(t, interval, failed) ==
    IF failed \/ interval = 0 THEN None ELSE Some(t + interval)

\* The provider's state and refs after the first render, the polling effect
\* having set its interval timer, with the poll interval read from storage.
ProviderAtMount(interval) ==
    /\ inFlight = <<>>
    /\ abortControllerRef = None
    /\ fetchCount = 0
    /\ pollInterval = interval
    /\ nextPollAt = PollingEffect(StartTime, interval, FALSE)
    /\ initialLoadAt = Some(StartTime + InitialLoadDelay)
    /\ error = None
    /\ connectionFailed = FALSE
    /\ evaluated = None

----------------------------------------------------------------------------
(* Initial state: the module-level AlertEngine and the provider's first       *)
(* PerformanceTracker, constructed over empty stores.                         *)

ConstructedWith(rs) ==
    /\ now = StartTime
    /\ activeCluster = "A"
    /\ rules = rs
    /\ settings = DEFAULT_ALERT_SETTINGS
    /\ activeAlerts = <<>>
    /\ heap = EmptyMap
    /\ alertHistory = <<>>
    /\ alertConditionStartTime = EmptyMap
    /\ lastEvaluationTime = EmptyMap
    /\ stored = [rules |-> None, settings |-> None, history |-> None]
    /\ newAlerts = <<>>
    /\ notified = <<>>
    /\ threw = FALSE
    /\ dwellCleared = {}
    /\ condTrueSince = EmptyMap
    /\ dwellCluster = EmptyMap
    /\ trackers = <<NewTracker(None, StartTime)>>
    /\ perfStore = None
    /\ lastMetrics = ZeroMetrics
    /\ snapshots = 0
    /\ fresh = None
    /\ writesAccepted = 3

AtConstruction == ConstructedWith(DEFAULT_ALERT_RULES)

Init == AtConstruction /\ ProviderAtMount(apiConfig.pollIntervalMs)

\* No evaluateAlerts result belongs to the step.
NoTick == newAlerts' = <<>> /\ notified' = <<>> /\ threw' = FALSE /\ dwellCleared' = {}
\* The same for an operation of the engine that ends with saveToStorage when
\* saves holds: it returns unless the save throws.
NoTickSaving(saves) ==
    /\ newAlerts' = <<>> /\ notified' = <<>> /\ dwellCleared' = {}
    /\ threw' = (saves /\ SaveToStorageThrows)

----------------------------------------------------------------------------
(* AlertEngine operations *)

\* The engine's fields as the loop sees them at its start.
LoopStart ==
    [activeAlerts |-> activeAlerts, heap |-> heap, alertHistory |-> alertHistory,
     alertConditionStartTime |-> alertConditionStartTime,
     lastEvaluationTime |-> lastEvaluationTime,
     condTrueSince |-> condTrueSince, dwellCluster |-> dwellCluster,
     newAlerts |-> <<>>, notified |-> <<>>, threw |-> FALSE, dwellCleared |-> {}]

\* The engine's fields after the loop over the rules at time t.
LoopEnd(data, t, outcome) ==
    EvalLoop(LoopStart, rules, 1, data,
             [settings |-> settings, now |-> t, clusterName |-> activeCluster,
              outcome |-> outcome])

\* evaluateAlerts(data, clusterName) called at time t with the engine enabled:
\* the loop over the rules, and the save.
EvaluateRules(data, t, outcome) ==
    LET e == LoopEnd(data, t, outcome)
    IN  /\ activeAlerts' = e.activeAlerts
        /\ heap' = e.heap
        /\ alertHistory' = e.alertHistory
        /\ alertConditionStartTime' = e.alertConditionStartTime
        /\ lastEvaluationTime' = e.lastEvaluationTime
        /\ condTrueSince' = e.condTrueSince
        /\ dwellCluster' = e.dwellCluster
        /\ newAlerts' = e.newAlerts
        /\ notified' = e.notified
        /\ threw' = (e.threw \/ SaveToStorageThrows)
        /\ dwellCleared' = e.dwellCleared
        /\ stored' = IF e.threw THEN stored
                     ELSE SaveToStorage(rules, settings, e.heap, e.alertHistory)
        /\ UNCHANGED <<rules, settings, writesAccepted>>

\* An evaluateAlerts without the check of settings.enabled.
EvaluateAlertsCall_IgnoresEnabled(data, t, outcome) == EvaluateRules(data, t, outcome)

\* evaluateAlerts(data, clusterName) called at time t: an empty list and no
\* effect while the engine is disabled.
EvaluateAlertsCall(data, t, outcome) ==
    IF ~settings.enabled
    THEN /\ NoTick
         /\ UNCHANGED engineVars
    ELSE EvaluateRules(data, t, outcome)

\* A tick: evaluateAlerts(data, activeCluster) at now, the next operation
\* following dt later.
EvaluateAlerts(dt, data, outcome) ==
    /\ now <= MaxTime
    /\ now' = now + dt
    /\ EvaluateAlertsCall(data, now, outcome)
    /\ UNCHANGED <<activeCluster, trackerVars>>
    /\ UNCHANGED fetchVars

\* The order of getActiveAlerts: critical first, then the later triggeredAt first.
SeverityOrder(sev) ==
    CASE sev = "critical" -> 0 [] sev = "warning" -> 1 [] OTHER -> 2
SortsBefore(a, b) ==
    \/ SeverityOrder(a.severity) < SeverityOrder(b.severity)
    \/ (SeverityOrder(a.severity) = SeverityOrder(b.severity) /\ a.triggeredAt > b.triggeredAt)

\* getActiveAlerts(): the instances of the map with status active, sorted.
GetActiveAlerts ==
    LET active == SelectSeq(activeAlerts, LAMBDA id : heap[id].status = "active")
    IN  SortSeq([i \in DOMAIN active |-> heap[active[i]]], SortsBefore)

\* getAlertStats().
GetAlertStats ==
    LET active == GetActiveAlerts
        allAlerts == [i \in DOMAIN alertHistory |-> heap[alertHistory[i]]]
        count(seq, f, v) == Len(SelectSeq(seq, LAMBDA a : a[f] = v))
    IN  [total |-> Len(allAlerts),
         active |-> Len(active),
         resolved |-> count(allAlerts, "status", "resolved"),
         snoozed |-> count(allAlerts, "status", "snoozed"),
         bySeverity |-> [v \in {"critical", "warning", "info"} |-> count(active, "severity", v)],
         byCategory |-> [v \in {"cluster", "performance", "resource", "index"} |->
                            count(active, "category", v)]]

\* snoozeAlert(alertId, minutes).
SnoozeAlert(alertId, minutes) ==
    /\ NoTickSaving(alertId \in Range(activeAlerts) /\ heap[alertId].status = "active")
    /\ IF alertId \in Range(activeAlerts) /\ heap[alertId].status = "active"
       THEN /\ heap' = [heap EXCEPT ![alertId].status = "snoozed",
                                    ![alertId].snoozedUntil = Some(now + minutes * 60 * 1000)]
            /\ stored' = SaveToStorage(rules, settings, heap', alertHistory)
       ELSE UNCHANGED <<heap, stored>>
    /\ UNCHANGED <<now, activeCluster, rules, settings, activeAlerts, alertHistory,
                   alertConditionStartTime, lastEvaluationTime, condTrueSince,
                   dwellCluster, writesAccepted, trackerVars>>
    /\ UNCHANGED fetchVars

\* A dismissal that also marks the instance resolved.
DismissAlert_Resolves(alertId) ==
    /\ NoTickSaving(TRUE)
    /\ activeAlerts' = SelectSeq(activeAlerts, LAMBDA id : id # alertId)
    /\ heap' = Reachable([id \in DOMAIN heap |->
                             IF id = alertId THEN [heap[id] EXCEPT !.status = "resolved"]
                             ELSE heap[id]],
                         activeAlerts', alertHistory)
    /\ stored' = SaveToStorage(rules, settings, heap', alertHistory)
    /\ UNCHANGED <<now, activeCluster, rules, settings, alertHistory,
                   alertConditionStartTime, lastEvaluationTime, condTrueSince,
                   dwellCluster, writesAccepted, trackerVars>>
    /\ UNCHANGED fetchVars

\* dismissAlert(alertId).
DismissAlert(alertId) ==
    /\ NoTickSaving(TRUE)
    /\ activeAlerts' = SelectSeq(activeAlerts, LAMBDA id : id # alertId)
    /\ heap' = Reachable(heap, activeAlerts', alertHistory)
    /\ stored' = SaveToStorage(rules, settings, heap, alertHistory)
    /\ UNCHANGED <<now, activeCluster, rules, settings, alertHistory,
                   alertConditionStartTime, lastEvaluationTime, condTrueSince,
                   dwellCluster, writesAccepted, trackerVars>>
    /\ UNCHANGED fetchVars

\* { ...rule, ...updates }.
Merged(r, updates) ==
    [f \in DOMAIN r |-> IF f \in DOMAIN updates THEN updates[f] ELSE r[f]]

\* updateRule(ruleId, updates).
UpdateRule(ruleId, updates) ==
    /\ NoTickSaving(\E i \in DOMAIN rules : rules[i].id = ruleId)
    /\ IF \E i \in DOMAIN rules : rules[i].id = ruleId
       THEN LET ruleIndex == CHOOSE i \in DOMAIN rules :
                                /\ rules[i].id = ruleId
                                /\ \A j \in DOMAIN rules : rules[j].id = ruleId => i <= j
            IN  /\ rules' = [rules EXCEPT ![ruleIndex] = Merged(@, updates)]
                /\ stored' = SaveToStorage(rules', settings, heap, alertHistory)
       ELSE UNCHANGED <<rules, stored>>
    /\ UNCHANGED <<now, activeCluster, settings, activeAlerts, heap, alertHistory,
                   alertConditionStartTime, lastEvaluationTime, condTrueSince,
                   dwellCluster, writesAccepted, trackerVars>>
    /\ UNCHANGED fetchVars

\* updateSettings(updates).
UpdateSettings(updates) ==
    /\ NoTickSaving(TRUE)
    /\ settings' = Merged(settings, updates)
    /\ stored' = SaveToStorage(rules, settings', heap, alertHistory)
    /\ UNCHANGED <<now, activeCluster, rules, activeAlerts, heap, alertHistory,
                   alertConditionStartTime, lastEvaluationTime, condTrueSince,
                   dwellCluster, writesAccepted, trackerVars>>
    /\ UNCHANGED fetchVars

\* clearAlertHistory().
ClearAlertHistory ==
    /\ NoTickSaving(TRUE)
    /\ alertHistory' = <<>>
    /\ heap' = Reachable(heap, activeAlerts, alertHistory')
    /\ stored' = SaveToStorage(rules, settings, heap', alertHistory')
    /\ UNCHANGED <<now, activeCluster, rules, settings, activeAlerts,
                   alertConditionStartTime, lastEvaluationTime, condTrueSince,
                   dwellCluster, writesAccepted, trackerVars>>
    /\ UNCHANGED fetchVars

\* resetToDefaults().
ResetToDefaults ==
    /\ NoTickSaving(TRUE)
    /\ rules' = DEFAULT_ALERT_RULES
    /\ settings' = DEFAULT_ALERT_SETTINGS
    /\ stored' = SaveToStorage(rules', settings', heap, alertHistory)
    /\ UNCHANGED <<now, activeCluster, activeAlerts, heap, alertHistory,
                   alertConditionStartTime, lastEvaluationTime, condTrueSince,
                   dwellCluster, writesAccepted, trackerVars>>
    /\ UNCHANGED fetchVars

\* The page is loaded dt after the last operation: the module is evaluated,
\* new AlertEngine() runs loadFromStorage over what localStorage holds, and the
\* provider constructs its PerformanceTracker.
Construct(dt, readOutcome) ==
    /\ now <= MaxTime
    /\ now' = now + dt
    /\ NoTick
    /\ LET f == LoadFromStorage(stored, now', readOutcome)
       IN  /\ rules' = f.rules
           /\ settings' = f.settings
           /\ alertHistory' = [i \in DOMAIN f.alertHistory |-> f.alertHistory[i].id]
           /\ heap' = [id \in {f.alertHistory[i].id : i \in DOMAIN f.alertHistory} |->
                          f.alertHistory[CHOOSE i \in DOMAIN f.alertHistory :
                                            f.alertHistory[i].id = id]]
    /\ activeAlerts' = <<>>
    /\ alertConditionStartTime' = EmptyMap
    /\ lastEvaluationTime' = EmptyMap
    /\ condTrueSince' = EmptyMap
    /\ dwellCluster' = EmptyMap
    /\ trackers' = <<NewTracker(perfStore, now')>>
    /\ perfStore' = StoreAfterNew(perfStore, now')
    /\ lastMetrics' = ZeroMetrics
    /\ fresh' = None
    /\ UNCHANGED <<activeCluster, stored, writesAccepted, snapshots>>
    /\ UNCHANGED fetchVars

----------------------------------------------------------------------------
(* MonitoringProvider: the cluster-change effect *)

\* setActiveCluster(label) and the effect that follows it: the provider state is
\* cleared, the in-flight fetch aborted, and performanceTrackerRef.current
\* replaced by a new PerformanceTracker.  The superseded tracker's interval
\* timer is not cancelled, and the alert engine is not touched.
ReplaceTracker(label) ==
    /\ label # activeCluster
    /\ Len(trackers) < MaxTrackers
    /\ activeCluster' = label
    /\ NoTick
    /\ trackers' = Append(trackers, NewTracker(perfStore, now))
    /\ perfStore' = StoreAfterNew(perfStore, now)
    /\ fresh' = None
    /\ UNCHANGED <<now, engineVars, lastMetrics, snapshots>>

\* The same where the fetches of the provider are not followed.
SwitchCluster(label) ==
    /\ ReplaceTracker(label)
    /\ UNCHANGED fetchVars

\* A fetchAll() that leaves the controller of the previous fetch alone.
FetchAllCall_NoAbort(fl, ref, cluster, t, failed, latency) ==
    IF failed
    THEN /\ inFlight' = fl
         /\ abortControllerRef' = ref
         /\ fetchCount' = fetchCount
    ELSE /\ fetchCount' = fetchCount + 1
         /\ inFlight' = Append(fl, [id |-> fetchCount + 1, cluster |-> cluster,
                                    aborted |-> FALSE, answerAt |-> t + latency])
         /\ abortControllerRef' = Some(fetchCount + 1)

\* fetchAll() up to its await, called at time t by a closure that holds
\* cluster as activeCluster and failed as connectionFailed: nothing when that is
\* set; otherwise the controller the ref holds is aborted, a new one takes its
\* place, error and connectionFailed are cleared and the five requests are
\* sent, to be answered latency later.
FetchAllCall(fl, ref, cluster, t, failed, latency) ==
    IF failed
    THEN /\ inFlight' = fl
         /\ abortControllerRef' = ref
         /\ fetchCount' = fetchCount
    ELSE /\ fetchCount' = fetchCount + 1
         /\ inFlight' = Append([i \in DOMAIN fl |->
                                   IF ref = Some(fl[i].id)
                                   THEN [fl[i] EXCEPT !.aborted = TRUE] ELSE fl[i]],
                               [id |-> fetchCount + 1, cluster |-> cluster,
                                aborted |-> FALSE, answerAt |-> t + latency])
         /\ abortControllerRef' = Some(fetchCount + 1)
\* What the same call does to error and connectionFailed.
FetchAllClears(failed) ==
    /\ error' = IF failed THEN error ELSE None
    /\ connectionFailed' = IF failed THEN connectionFailed ELSE FALSE

\* The finally block of the fetchAll that created controller id.
ClearedIfOwned(id) == IF abortControllerRef = Some(id) THEN None ELSE abortControllerRef

\* s without its i-th element.
Without(s, i) == SubSeq(s, 1, i - 1) \o SubSeq(s, i + 1, Len(s))

\* setActiveCluster(label) and the effects of the render that follows it, with
\* the fetch the cluster-change effect starts: the controller the ref holds is
\* aborted and the ref cleared, error and connectionFailed are cleared, the
\* tracker is replaced and fetchAll called; healthCheckDoneRef being reset, the
\* initial-load effect sets its timer again, and the polling interval restarts.
SetActiveCluster(label, latency) ==
    /\ ReplaceTracker(label)
    /\ LET aborted == [i \in DOMAIN inFlight |->
                          IF abortControllerRef = Some(inFlight[i].id)
                          THEN [inFlight[i] EXCEPT !.aborted = TRUE] ELSE inFlight[i]]
       IN  FetchAllCall(aborted, None, label, now, FALSE, latency)
    /\ FetchAllClears(FALSE)
    /\ initialLoadAt' = Some(now + InitialLoadDelay)
    /\ nextPollAt' = PollingEffect(now, pollInterval, FALSE)
    /\ evaluated' = None
    /\ UNCHANGED pollInterval

\* The timer of the initial-load effect fires: the health check answers at
\* once and succeeds, and fetchAll is called.
InitialLoad(latency) ==
    /\ initialLoadAt = Some(now)
    /\ initialLoadAt' = None
    /\ FetchAllCall(inFlight, abortControllerRef, activeCluster, now, FALSE, latency)
    /\ FetchAllClears(FALSE)
    /\ NoTick
    /\ evaluated' = None
    /\ UNCHANGED <<now, activeCluster, engineVars, trackerVars, pollInterval, nextPollAt>>

\* The interval timer of the polling effect fires: fetchAll().
PollTimer(latency) ==
    /\ nextPollAt = Some(now)
    /\ nextPollAt' = Some(now + pollInterval)
    /\ FetchAllCall(inFlight, abortControllerRef, activeCluster, now, connectionFailed, latency)
    /\ FetchAllClears(connectionFailed)
    /\ NoTick
    /\ evaluated' = None
    /\ UNCHANGED <<now, activeCluster, engineVars, trackerVars, pollInterval, initialLoadAt>>

----------------------------------------------------------------------------
(* PerformanceTracker operations *)

\* performanceTrackerRef.current.addSnapshot(nodeStats, null, indexStats, null)
\* called at time t.
AddSnapshotCall(t, nodeStats) ==
    /\ snapshots < MaxSnapshots
    /\ snapshots' = snapshots + 1
    /\ LET entry == HistoryEntry(nodeStats, t, activeCluster)
           tr == Pushed(Current, entry)
       IN  /\ trackers' = [trackers EXCEPT ![Len(trackers)] = tr]
           /\ lastMetrics' = CalculateCurrentMetrics(tr.history)
           /\ perfStore' = TrackerSaved(tr)
           /\ fresh' = IF fresh = None THEN None
                       ELSE LET f == Pushed(fresh[1].tracker, entry)
                            IN  Some([tracker |-> f, store |-> TrackerSaved(f)])

\* The same as the only operation of a step that ends dt after the previous one.
AddSnapshot(dt, nodeStats) ==
    /\ now' = now + dt
    /\ AddSnapshotCall(now + dt, nodeStats)
    /\ UNCHANGED <<activeCluster, engineVars, tickVars>>
    /\ UNCHANGED fetchVars

\* The interval timer of tracker i fires: cleanup().
Sweep(i) ==
    /\ now >= trackers[i].nextSweepAt
    /\ LET tr == [Cleaned(trackers[i], now) EXCEPT !.nextSweepAt = @ + cleanupInterval]
       IN  /\ trackers' = [trackers EXCEPT ![i] = tr]
           /\ perfStore' = TrackerSaved(tr)
    /\ fresh' = None
    /\ UNCHANGED <<now, activeCluster, engineVars, tickVars, lastMetrics, snapshots>>
    /\ UNCHANGED fetchVars

\* A clearData that leaves the persisted key in place.
ClearData_KeepsStore ==
    /\ trackers' = [trackers EXCEPT ![Len(trackers)] =
                       [@ EXCEPT !.history = <<>>, !.chartData = <<>>]]
    /\ fresh' = Some([tracker |-> NewTracker(None, now), store |-> StoreAfterNew(None, now)])
    /\ UNCHANGED <<now, activeCluster, engineVars, tickVars, lastMetrics, snapshots, perfStore>>
    /\ UNCHANGED fetchVars

\* clearData() on the current tracker.
ClearData ==
    /\ trackers' = [trackers EXCEPT ![Len(trackers)] =
                       [@ EXCEPT !.history = <<>>, !.chartData = <<>>]]
    /\ perfStore' = None
    /\ fresh' = Some([tracker |-> NewTracker(None, now), store |-> StoreAfterNew(None, now)])
    /\ UNCHANGED <<now, activeCluster, engineVars, tickVars, lastMetrics, snapshots>>
    /\ UNCHANGED fetchVars

\* The polling effect does not run (pollInterval is 0 or the connection has
\* failed): dt passes without a fetch.
NoPolling(dt) ==
    /\ now' = now + dt
    /\ UNCHANGED <<activeCluster, engineVars, tickVars, trackerVars>>
    /\ UNCHANGED fetchVars

\* getCurrentMetrics() on the current tracker; lastMetrics holds what it returned.
GetCurrentMetrics ==
    /\ lastMetrics' = CalculateCurrentMetrics(Current.history)
    /\ UNCHANGED <<now, activeCluster, engineVars, tickVars, trackers, perfStore, snapshots, fresh>>
    /\ UNCHANGED fetchVars

----------------------------------------------------------------------------
(* MonitoringProvider: the fetches in flight *)

\* The requests of the i-th fetch in flight are answered: fetchAll resumes
\* after its await with addSnapshot, builds the snapshot with the metrics
\* returned, hands it to evaluateAlerts, and clears the ref if it still owns it.
FetchResolves(i, answer, outcome) ==
    /\ ~inFlight[i].aborted
    /\ inFlight[i].answerAt = now
    /\ AddSnapshotCall(now, answer.nodeStats)
    /\ LET newSnapshot == [nodes |-> answer.nodes, performanceMetrics |-> lastMetrics']
       IN  /\ EvaluateAlertsCall(newSnapshot, now, outcome)
           /\ evaluated' = Some(newSnapshot)
    /\ inFlight' = Without(inFlight, i)
    /\ abortControllerRef' = ClearedIfOwned(inFlight[i].id)
    /\ connectionFailed' = FALSE
    /\ nextPollAt' = IF connectionFailed THEN PollingEffect(now, pollInterval, FALSE)
                      ELSE nextPollAt
    /\ UNCHANGED <<now, activeCluster, fetchCount, pollInterval, initialLoadAt, error>>

\* The requests of the i-th fetch in flight fail on both attempts with an
\* error that is no abort: the error is shown, connectionFailed is set, which
\* ends the polling effect's interval, and the ref is cleared if still owned.
FetchFails(i) ==
    /\ ~inFlight[i].aborted
    /\ inFlight[i].answerAt = now
    /\ error' = Some("Elasticsearch 500")
    /\ connectionFailed' = TRUE
    /\ nextPollAt' = None
    /\ inFlight' = Without(inFlight, i)
    /\ abortControllerRef' = ClearedIfOwned(inFlight[i].id)
    /\ NoTick
    /\ evaluated' = None
    /\ UNCHANGED <<now, activeCluster, engineVars, trackerVars, fetchCount,
                   pollInterval, initialLoadAt>>

\* The requests of the i-th fetch in flight reject with an AbortError, its
\* signal having been aborted: fetchAll returns from its catch block, and the
\* finally block clears the ref if this fetch still owns it.
FetchAborted(i) ==
    /\ inFlight[i].aborted
    /\ inFlight' = Without(inFlight, i)
    /\ abortControllerRef' = ClearedIfOwned(inFlight[i].id)
    /\ NoTick
    /\ evaluated' = None
    /\ UNCHANGED <<now, activeCluster, engineVars, trackerVars, fetchCount,
                   pollInterval, nextPollAt, initialLoadAt, error, connectionFailed>>

\* setPollInterval(ms): the value is clamped to 3,000..60,000 unless it is 0,
\* and a changed value makes the polling effect set a new interval.
SetPollInterval(ms) ==
    /\ LET safeValue == IF ms = 0 THEN 0
                        ELSE IF ms < 3000 THEN 3000
                        ELSE IF ms > 60000 THEN 60000 ELSE ms
       IN  /\ pollInterval' = safeValue
           /\ nextPollAt' = IF safeValue = pollInterval THEN nextPollAt
                             ELSE PollingEffect(now, safeValue, connectionFailed)
    /\ NoTick
    /\ evaluated' = None
    /\ UNCHANGED <<now, activeCluster, engineVars, trackerVars, inFlight,
                   abortControllerRef, fetchCount, initialLoadAt, error, connectionFailed>>

\* The times at which something is due: the timers, and the answers to the
\* fetches in flight that are not aborted.
DueTimes ==
    (IF nextPollAt = None THEN {} ELSE {nextPollAt[1]})
    \cup (IF initialLoadAt = None THEN {} ELSE {initialLoadAt[1]})
    \cup {inFlight[i].answerAt : i \in {j \in DOMAIN inFlight : ~inFlight[j].aborted}}

\* Time passes up to the next moment something is due; the rejection of an
\* aborted request is delivered before that.
Elapse(horizon) ==
    /\ \A i \in DOMAIN inFlight : ~inFlight[i].aborted
    /\ \A u \in DueTimes : u > now
    /\ \E t \in DueTimes :
          /\ t <= horizon
          /\ \A u \in DueTimes : t <= u
          /\ now' = t
    /\ NoTick
    /\ evaluated' = None
    /\ UNCHANGED <<activeCluster, engineVars, trackerVars, inFlight, abortControllerRef,
                   fetchCount, pollInterval, nextPollAt, initialLoadAt, error,
                   connectionFailed>>

----------------------------------------------------------------------------
(* Specifications *)

SnoozeMinutes == {30}
UnknownAlertId == <<"unknown", 0>>
\* updateRule calls: the critical rule switched off and on.
RuleUpdates ==
    { <<"high-cpu-usage", [enabled |-> FALSE]>>, <<"high-cpu-usage", [enabled |-> TRUE]>> }
\* updateSettings calls: browser notifications switched off and on.
SettingsUpdates ==
    { [browserNotifications |-> FALSE], [browserNotifications |-> TRUE] }

UserOperation ==
    \/ \E id \in Range(activeAlerts), m \in SnoozeMinutes : SnoozeAlert(id, m)
    \/ \E id \in Range(activeAlerts) \cup {UnknownAlertId} : DismissAlert(id)
    \/ \E u \in RuleUpdates : UpdateRule(u[1], u[2])
    \/ \E u \in SettingsUpdates : UpdateSettings(u)
    \/ ClearAlertHistory
    \/ ResetToDefaults

\* The alert engine in the browser, where the notification call returns.
Next ==
    \/ \E dt \in TickSteps, d \in Snapshots : EvaluateAlerts(dt, d, "returns")
    \/ UserOperation

Spec == Init /\ [][Next]_vars

\* The alert engine with a notification sink that may throw.
NextNotifyFault ==
    \/ \E dt \in TickSteps, d \in Snapshots, o \in {"returns", "throws"} :
          EvaluateAlerts(dt, d, o)
    \/ UserOperation

SpecNotifyFault == Init /\ [][NextNotifyFault]_vars

\* The alert engine in a session that lasts: a tick may be followed by two days
\* without an operation, and the retention may be lowered to one day.
RetentionSteps == {30 * 1000, 2 * DayMs}
RetentionUpdates == { [maxHistoryDays |-> 1] }
NextRetention ==
    \/ \E dt \in RetentionSteps, d \in Snapshots : EvaluateAlerts(dt, d, "returns")
    \/ \E u \in RetentionUpdates : UpdateSettings(u)
    \/ \E id \in Range(activeAlerts) : DismissAlert(id)

SpecRetention == Init /\ [][NextRetention]_vars

\* The alert engine under the provider: ticks, and switches of the cluster.
NextProvider ==
    \/ \E dt \in TickSteps, d \in Snapshots : EvaluateAlerts(dt, d, "returns")
    \/ \E c \in Clusters : SwitchCluster(c)
    \/ \E id \in Range(activeAlerts) : DismissAlert(id)

SpecProvider == Init /\ [][NextProvider]_vars

\* The tracker and the provider that replaces it.
NextTracker ==
    \/ \E dt \in SnapshotSteps, ns \in NodeStatsAnswers : AddSnapshot(dt, ns)
    \/ \E i \in DOMAIN trackers : Sweep(i)
    \/ \E c \in Clusters : SwitchCluster(c)

SpecTracker == Init /\ [][NextTracker]_vars

\* The tracker's metric computation over histories drawn from a set.  The
\* tracker is constructed over a store that earlier addSnapshot calls have
\* written: a regular interval, a counter reset, a short interval, a duplicate
\* and a clock set back, and deltas at and beyond the sanity caps.
Entry(t, iops, itime, sops, stime) ==
    [timestamp |-> t, totalIndexingOps |-> iops, totalSearchOps |-> sops,
     totalIndexTimeMs |-> itime, totalSearchTimeMs |-> stime, origin |-> "A"]
EntryBase == StartTime - 20 * 1000
MetricEntries ==
    { Entry(EntryBase, 1000, 5000, 200, 400),
      Entry(EntryBase + 10 * 1000, 1100, 5600, 200, 400),
      Entry(EntryBase + 10 * 1000, 900, 5700, 260, 700),
      Entry(EntryBase + 500, 1100, 5600, 260, 700),
      Entry(EntryBase, 1100, 5600, 260, 700),
      Entry(EntryBase - 1000, 1100, 5600, 260, 700),
      Entry(EntryBase + 10 * 1000, 1000 + 500000000, 5000 + 600, 200 + 500000010, 400 + 600),
      Entry(EntryBase + 10 * 1000, 1001, 5000 + 300000, 201, 400 + 300001) }
MetricHistories ==
    {<<>>} \cup {<<a>> : a \in MetricEntries}
           \cup {<<a, b>> : a \in MetricEntries, b \in MetricEntries}

\* The tracker after addSnapshot calls that pushed the entries: the k-th call
\* truncates the history it has pushed to and adds the chart point of its metrics.
Replayed(tr, entries) ==
    LET all == tr.history \o entries
        seen(k) == LastN(SubSeq(all, 1, Len(tr.history) + k), maxHistorySize)
        points == [k \in DOMAIN entries |->
                      ChartPoint(entries[k], CalculateCurrentMetrics(seen(k)))]
    IN  [tr EXCEPT !.history = LastN(all, maxHistorySize),
                   !.chartData = LastN(@ \o points, maxChartSize)]

\* A page that constructs its tracker over the store an earlier tracker wrote.
InitMetrics ==
    /\ now = StartTime
    /\ activeCluster = "A"
    /\ rules = DEFAULT_ALERT_RULES
    /\ settings = DEFAULT_ALERT_SETTINGS
    /\ activeAlerts = <<>>
    /\ heap = EmptyMap
    /\ alertHistory = <<>>
    /\ alertConditionStartTime = EmptyMap
    /\ lastEvaluationTime = EmptyMap
    /\ stored = [rules |-> None, settings |-> None, history |-> None]
    /\ newAlerts = <<>>
    /\ notified = <<>>
    /\ threw = FALSE
    /\ dwellCleared = {}
    /\ condTrueSince = EmptyMap
    /\ dwellCluster = EmptyMap
    /\ \E h \in MetricHistories :
          LET written == IF h = <<>> THEN None
                         ELSE TrackerSaved(Replayed(NewTracker(None, EntryBase), h))
          IN  /\ trackers = <<NewTracker(written, StartTime)>>
              /\ perfStore = StoreAfterNew(written, StartTime)
    /\ lastMetrics = ZeroMetrics
    /\ snapshots = MaxSnapshots - 1
    /\ fresh = None
    /\ writesAccepted = 3
    /\ ProviderAtMount(apiConfig.pollIntervalMs)

\* The tracker under frequent polling: it was constructed five minutes ago and
\* has pushed a snapshot every two seconds since, up to the sizes of its buffers.
BufferLengths == {0, 1, 50, 51, 59, 60, 119, 120}
PastEntry(i, n) ==
    Entry(StartTime - (n - i + 1) * (2 * 1000), 1000 + 40 * i, 5000 + 200 * i, 200 + 10 * i, 400 + 30 * i)
InitBuffers ==
    /\ now = StartTime
    /\ activeCluster = "A"
    /\ rules = DEFAULT_ALERT_RULES
    /\ settings = DEFAULT_ALERT_SETTINGS
    /\ activeAlerts = <<>>
    /\ heap = EmptyMap
    /\ alertHistory = <<>>
    /\ alertConditionStartTime = EmptyMap
    /\ lastEvaluationTime = EmptyMap
    /\ stored = [rules |-> None, settings |-> None, history |-> None]
    /\ newAlerts = <<>>
    /\ notified = <<>>
    /\ threw = FALSE
    /\ dwellCleared = {}
    /\ condTrueSince = EmptyMap
    /\ dwellCluster = EmptyMap
    /\ \E n \in BufferLengths :
          LET tr == Replayed(NewTracker(None, StartTime - cleanupInterval),
                             [i \in 1..n |-> PastEntry(i, n)])
          IN  /\ trackers = <<tr>>
              /\ perfStore = IF n = 0 THEN None ELSE TrackerSaved(tr)
              /\ lastMetrics = CalculateCurrentMetrics(tr.history)
    /\ snapshots = 0
    /\ fresh = None
    /\ writesAccepted = 3
    /\ ProviderAtMount(apiConfig.pollIntervalMs)

\* addSnapshot at the polling pace, the sweeps, clearData, and the construction
\* of a tracker over the store.
BufferSteps == {2 * 1000}
BufferAnswers ==
    { <<Node(6000, 30000, 1500, 4000)>>, <<Node(6100, 30500, 1520, 4060)>> }
NextBuffers ==
    \/ \E dt \in BufferSteps, ns \in BufferAnswers : AddSnapshot(dt, ns)
    \/ \E i \in DOMAIN trackers : Sweep(i)
    \/ ClearData
    \/ \E c \in Clusters : SwitchCluster(c)

SpecBuffers == InitBuffers /\ [][NextBuffers]_vars

NextMetrics ==
    \/ GetCurrentMetrics
    \/ \E dt \in SnapshotSteps, ns \in NodeStatsAnswers : AddSnapshot(dt, ns)

SpecMetrics == InitMetrics /\ [][NextMetrics]_vars

\* The alert engine over a store that earlier sessions have written, with reads
\* and writes that may throw.
Rule(id, name, severity, threshold, metricPath, condition, enabled, category, cooldownMinutes) ==
    [id |-> id, name |-> name, severity |-> severity, threshold |-> threshold,
     metricPath |-> metricPath, condition |-> condition, enabled |-> enabled,
     category |-> category, cooldownMinutes |-> cooldownMinutes]

\* Four rules of the previous catalogue, in its order.
PREVIOUS_ALERT_RULES ==
    << Rule("high-cpu-usage", "High CPU Usage", "critical", 90,
            "clusterResources.cpuUsage", "greater_than", TRUE, "resource", 2),
       Rule("medium-disk-usage", "Medium Disk Usage", "warning", 80,
            "clusterResources.storagePercent", "greater_than", TRUE, "resource", 10),
       Rule("low-search-activity", "Low Search Activity", "info", 1,
            "performanceMetrics.searchRate", "less_than", FALSE, "performance", 30),
       Rule("high-document-count", "High Document Count", "info", 1000000,
            "indices.maxDocCount", "greater_than", TRUE, "index", 120) >>

\* The warning rule on storage of the present catalogue.
HighDiskUsage ==
    Rule("high-disk-usage", "High Disk Usage", "warning", 80,
         "clusterResources.storagePercent", "greater_than", TRUE, "resource", 0)

\* Values of the rules key: absent, not JSON, the present defaults, the previous
\* catalogue, and a list that holds a rule under its retired id beside the rule
\* of the present catalogue.
PersistedRules ==
    { None, Unparsable, Some(DEFAULT_ALERT_RULES), Some(PREVIOUS_ALERT_RULES),
      Some(<<HighDiskUsage, PREVIOUS_ALERT_RULES[2]>>) }

PersistedSettings ==
    { None, Unparsable,
      Some([DEFAULT_ALERT_SETTINGS EXCEPT !.maxHistoryDays = 1, !.browserNotifications = FALSE]) }

\* A history entry an earlier session has written for a rule at time t.
PastAlert(rule, t, status) ==
    [CreateAlertInstance(rule, rule.threshold + 5, "A", t) EXCEPT
        !.status = status,
        !.resolvedAt = IF status = "resolved" THEN Some(t + 30 * 1000) ELSE None]

\* Values of the history key: absent, not JSON, entries of the previous
\* catalogue's rules of the last minutes, and an entry of two days ago.
PersistedHistories ==
    { None, Unparsable,
      Some(<< PastAlert(PREVIOUS_ALERT_RULES[2], StartTime - 60 * 1000, "active"),
              PastAlert(PREVIOUS_ALERT_RULES[4], StartTime - 90 * 1000, "resolved"),
              PastAlert(PREVIOUS_ALERT_RULES[1], StartTime - 120 * 1000, "resolved") >>),
      Some(<< PastAlert(DEFAULT_ALERT_RULES[2], StartTime - 2 * DayMs, "resolved") >>) }

PersistedStores ==
    {[rules |-> r, settings |-> None, history |-> None] : r \in PersistedRules}
    \cup {[rules |-> None, settings |-> st, history |-> h] :
             st \in PersistedSettings, h \in PersistedHistories}
    \cup {[rules |-> Some(PREVIOUS_ALERT_RULES), settings |-> Some(DEFAULT_ALERT_SETTINGS),
           history |-> Some(<< PastAlert(PREVIOUS_ALERT_RULES[3], StartTime - 60 * 1000, "active") >>)]}

ReadOutcomes == {"returns", "throws"}
WriteFaults == {0, 2, 3}

InitLoad ==
    /\ now = StartTime
    /\ activeCluster = "A"
    /\ stored \in PersistedStores
    /\ writesAccepted \in WriteFaults
    /\ \E ro \in ReadOutcomes :
          LET f == LoadFromStorage(stored, StartTime, ro)
          IN  /\ rules = f.rules
              /\ settings = f.settings
              /\ alertHistory = [i \in DOMAIN f.alertHistory |-> f.alertHistory[i].id]
              /\ heap = [id \in {f.alertHistory[i].id : i \in DOMAIN f.alertHistory} |->
                            f.alertHistory[CHOOSE i \in DOMAIN f.alertHistory :
                                              f.alertHistory[i].id = id]]
    /\ activeAlerts = <<>>
    /\ alertConditionStartTime = EmptyMap
    /\ lastEvaluationTime = EmptyMap
    /\ newAlerts = <<>>
    /\ notified = <<>>
    /\ threw = FALSE
    /\ dwellCleared = {}
    /\ condTrueSince = EmptyMap
    /\ dwellCluster = EmptyMap
    /\ trackers = <<NewTracker(None, StartTime)>>
    /\ perfStore = None
    /\ lastMetrics = ZeroMetrics
    /\ snapshots = 0
    /\ fresh = None
    /\ ProviderAtMount(apiConfig.pollIntervalMs)

LoadSteps == {30 * 1000}
LoadSnapshots == { [nodes |-> Some(<<50>>)], [nodes |-> Some(<<0, 95>>)] }
\* updateRule and updateSettings calls: a rule and the notifications switched
\* off; resetToDefaults switches them on again.
LoadRuleUpdates == { <<"high-cpu-usage", [enabled |-> FALSE]>> }
LoadSettingsUpdates == { [browserNotifications |-> FALSE] }
LoadOperation ==
    \/ \E id \in Range(activeAlerts), m \in SnoozeMinutes : SnoozeAlert(id, m)
    \/ \E id \in Range(activeAlerts) \cup {UnknownAlertId} : DismissAlert(id)
    \/ \E u \in LoadRuleUpdates : UpdateRule(u[1], u[2])
    \/ \E u \in LoadSettingsUpdates : UpdateSettings(u)
    \/ ClearAlertHistory
    \/ ResetToDefaults
NextLoad ==
    \/ \E dt \in LoadSteps, d \in LoadSnapshots : EvaluateAlerts(dt, d, "returns")
    \/ \E dt \in LoadSteps, ro \in ReadOutcomes : Construct(dt, ro)
    \/ LoadOperation

SpecLoad == InitLoad /\ [][NextLoad]_vars

\* The alert engine with alerts in place: the CPU has been at its present level
\* since 45 seconds before the start, a tick 45 seconds before the start has
\* recorded the dwell start times and a tick 15 seconds before the start has
\* materialized the alerts.
EngineAtConstruction ==
    [activeAlerts |-> <<>>, heap |-> EmptyMap, alertHistory |-> <<>>,
     alertConditionStartTime |-> EmptyMap, lastEvaluationTime |-> EmptyMap,
     condTrueSince |-> EmptyMap, dwellCluster |-> EmptyMap,
     newAlerts |-> <<>>, notified |-> <<>>, threw |-> FALSE, dwellCleared |-> {}]
TickAt(e, rs, data, t) ==
    EvalLoop([e EXCEPT !.newAlerts = <<>>, !.notified = <<>>, !.dwellCleared = {}],
             rs, 1, data,
             [settings |-> DEFAULT_ALERT_SETTINGS, now |-> t, clusterName |-> "A",
              outcome |-> "returns"])
ActiveSnapshots == { [nodes |-> Some(<<0, 95>>)] }
\* The snapshots of the later ticks: CPU at 50% and at 95%.
LaterSnapshots == { [nodes |-> Some(<<50>>)], [nodes |-> Some(<<0, 95>>)] }
\* The rule lists of the engine: the defaults, and the defaults after
\* updateRule('high-cpu-load', {cooldownMinutes: 5}).
ActiveRules ==
    { DEFAULT_ALERT_RULES,
      [DEFAULT_ALERT_RULES EXCEPT ![2] = Merged(@, [cooldownMinutes |-> 5])] }
InitActive ==
    /\ now = StartTime
    /\ activeCluster = "A"
    /\ rules \in ActiveRules
    /\ settings = DEFAULT_ALERT_SETTINGS
    /\ writesAccepted = 3
    /\ \E d \in ActiveSnapshots :
          LET e == TickAt(TickAt(EngineAtConstruction, rules, d, StartTime - 45 * 1000),
                          rules, d, StartTime - 15 * 1000)
          IN  /\ activeAlerts = e.activeAlerts
              /\ heap = e.heap
              /\ alertHistory = e.alertHistory
              /\ alertConditionStartTime = e.alertConditionStartTime
              /\ lastEvaluationTime = e.lastEvaluationTime
              /\ condTrueSince = e.condTrueSince
              /\ dwellCluster = e.dwellCluster
              /\ newAlerts = e.newAlerts
              /\ notified = e.notified
              /\ threw = e.threw
              /\ dwellCleared = e.dwellCleared
              /\ stored = Serialized(rules, DEFAULT_ALERT_SETTINGS, e.heap, e.alertHistory)
    /\ trackers = <<NewTracker(None, StartTime)>>
    /\ perfStore = None
    /\ lastMetrics = ZeroMetrics
    /\ snapshots = 0
    /\ fresh = None
    /\ ProviderAtMount(apiConfig.pollIntervalMs)

\* Ticks half a dwell and a dwell apart, and dismissals.
ActiveSteps == {15 * 1000, 30 * 1000}
NextActive ==
    \/ \E dt \in ActiveSteps, d \in LaterSnapshots : EvaluateAlerts(dt, d, "returns")
    \/ \E id \in Range(activeAlerts) \cup {UnknownAlertId} : DismissAlert(id)

SpecActive == InitActive /\ [][NextActive]_vars

\* The tracker with its interval timer over polls, a pause of polling and the
\* six-minute gap, for up to 25 minutes.
SweepSteps == {10 * 1000, 6 * 60 * 1000}
PauseSteps == {11 * 60 * 1000}
SweepHorizon == 25 * 60 * 1000
NextSweep ==
    \/ \E dt \in SweepSteps, ns \in BufferAnswers :
          now + dt <= StartTime + SweepHorizon /\ AddSnapshot(dt, ns)
    \/ \E i \in DOMAIN trackers : Sweep(i)
    \/ \E dt \in PauseSteps : now + dt <= StartTime + SweepHorizon /\ NoPolling(dt)

SpecSweep == Init /\ [][NextSweep]_vars

\* The provider with its fetches: the initial load, the polling timer, the
\* answers of the cluster (in time, or an error), switches of the cluster and
\* changes of the poll interval, over the first seconds of a session.
Latencies == {2000, 5000}
Answers ==
    { [nodeStats |-> <<Node(6000, 30000, 1500, 4000)>>, nodes |-> Some(<<50>>)],
      [nodeStats |-> <<Node(6100, 30500, 1500, 4060)>>, nodes |-> Some(<<0, 95>>)] }
PollIntervalRequests == {1000}
FetchHorizon == StartTime + 12 * 1000
NextFetch ==
    \/ \E l \in Latencies : InitialLoad(l)
    \/ \E l \in Latencies : PollTimer(l)
    \/ \E i \in DOMAIN inFlight, a \in Answers : FetchResolves(i, a, "returns")
    \/ \E i \in DOMAIN inFlight : FetchFails(i)
    \/ \E i \in DOMAIN inFlight : FetchAborted(i)
    \/ \E c \in Clusters, l \in Latencies : SetActiveCluster(c, l)
    \/ \E ms \in PollIntervalRequests : SetPollInterval(ms)
    \/ Elapse(FetchHorizon)

SpecFetch == Init /\ [][NextFetch]_vars

\* Time passes up to the next moment something is due, before the first
\* snapshot is taken.  Until then the tracker and the engine hold no time of
\* the past, and what follows depends on the times still to come only by their
\* distance from now; so that the clock is read anew here: every time still to
\* come is kept at its distance, and the fetches in flight are numbered anew.
\* A sweep that is due runs before more time passes.
ElapseBeforeFirstSnapshot ==
    /\ snapshots = 0
    /\ \A i \in DOMAIN inFlight : ~inFlight[i].aborted
    /\ \A u \in DueTimes : u > now
    /\ \A i \in DOMAIN trackers : trackers[i].nextSweepAt > now
    /\ DueTimes # {}
    /\ LET t == CHOOSE u \in DueTimes : \A v \in DueTimes : u <= v
           d == t - now
           back(o) == IF o = None THEN None ELSE Some(o[1] - d)
       IN  /\ inFlight' = [i \in DOMAIN inFlight |->
                              [inFlight[i] EXCEPT !.id = i, !.answerAt = @ - d]]
           /\ fetchCount' = Len(inFlight)
           /\ abortControllerRef' =
                  IF abortControllerRef = None THEN None
                  ELSE Some(CHOOSE i \in DOMAIN inFlight :
                                inFlight[i].id = abortControllerRef[1])
           /\ nextPollAt' = back(nextPollAt)
           /\ initialLoadAt' = back(initialLoadAt)
           /\ trackers' = [i \in DOMAIN trackers |->
                              [trackers[i] EXCEPT !.nextSweepAt = @ - d]]
    /\ NoTick
    /\ evaluated' = None
    /\ UNCHANGED <<now, activeCluster, engineVars, perfStore, lastMetrics, snapshots,
                   fresh, pollInterval, error, connectionFailed>>

\* The provider polling one cluster that answers every request in time, with
\* the smallest or the largest poll interval in storage.  The timers fire when
\* they are due, every answer and every rejection is delivered, and time
\* passes (after the first snapshot, up to PollHorizon).
StoredPollIntervals == {3000, 60000}
PollHorizon == StartTime + 7 * 1000
PollAnswers == { [nodeStats |-> <<Node(6000, 30000, 1500, 4000)>>, nodes |-> Some(<<50>>)] }
InitPolling == AtConstruction /\ \E ms \in StoredPollIntervals : ProviderAtMount(ms)
PollResolves == \E i \in DOMAIN inFlight, a \in PollAnswers : FetchResolves(i, a, "returns")
NextPolling ==
    \/ \E l \in Latencies : InitialLoad(l)
    \/ \E l \in Latencies : PollTimer(l)
    \/ PollResolves
    \/ \E i \in DOMAIN inFlight : FetchAborted(i)
    \/ \E i \in DOMAIN trackers : Sweep(i)
    \/ ElapseBeforeFirstSnapshot
    \/ (snapshots > 0 /\ Elapse(PollHorizon))
\* The condition under which FetchResolves can be taken.
ResolveDue ==
    /\ snapshots < MaxSnapshots
    /\ \E i \in DOMAIN inFlight : ~inFlight[i].aborted /\ inFlight[i].answerAt = now
\* Weak fairness of each step; that of PollResolves is written out with
\* ResolveDue as its enabling condition.
FairPolling ==
    /\ WF_vars(\E l \in Latencies : InitialLoad(l))
    /\ WF_vars(\E l \in Latencies : PollTimer(l))
    /\ ([]<>(~ResolveDue) \/ []<><<PollResolves>>_vars)
    /\ WF_vars(\E i \in DOMAIN inFlight : FetchAborted(i))
    /\ WF_vars(\E i \in DOMAIN trackers : Sweep(i))
    /\ WF_vars(ElapseBeforeFirstSnapshot)
    /\ WF_vars(snapshots > 0 /\ Elapse(PollHorizon))

SpecPolling == InitPolling /\ [][NextPolling]_vars /\ FairPolling

\* A poll that succeeds, dt after the previous one: addSnapshot, then
\* evaluateAlerts with the snapshot that carries the metrics returned.
Poll(dt, answer) ==
    /\ now' = now + dt
    /\ AddSnapshotCall(now + dt, answer.nodeStats)
    /\ LET newSnapshot == [nodes |-> answer.nodes, performanceMetrics |-> lastMetrics']
       IN  /\ EvaluateAlertsCall(newSnapshot, now + dt, "returns")
           /\ evaluated' = Some(newSnapshot)
    /\ UNCHANGED <<activeCluster, inFlight, abortControllerRef, fetchCount, pollInterval,
                   nextPollAt, initialLoadAt, error, connectionFailed>>

\* The engine with the catalogue's two rules on activity next to the CPU rules,
\* polling a cluster whose search counters stand still or fall (the tracker
\* reports a search rate of 0) while its indexing counters may rise.
NoIndexingActivity ==
    Rule("no-indexing-activity", "No Indexing Activity", "info", 0,
         "performanceMetrics.indexingRate", "equals", TRUE, "performance", 0)
NoSearchActivity ==
    Rule("no-search-activity", "No Search Activity", "info", 0,
         "performanceMetrics.searchRate", "less_than", TRUE, "performance", 0)
ActivityRules == DEFAULT_ALERT_RULES \o <<NoIndexingActivity, NoSearchActivity>>
QuietAnswers ==
    { [nodeStats |-> <<Node(6000, 30000, 1500, 4000)>>, nodes |-> Some(<<50>>)],
      [nodeStats |-> <<Node(6300, 30600, 1500, 4000)>>, nodes |-> Some(<<50>>)],
      [nodeStats |-> <<Node(6300, 30600, 1400, 4000)>>, nodes |-> Some(<<0, 95>>)] }
InitActivity == ConstructedWith(ActivityRules) /\ ProviderAtMount(apiConfig.pollIntervalMs)
NextActivity == \E dt \in TickSteps, a \in QuietAnswers : Poll(dt, a)

SpecActivity == InitActivity /\ [][NextActivity]_vars

\* The alert engine switched off and on: ticks, updateSettings({enabled}),
\* and dismissals.
EnabledUpdates == { [enabled |-> FALSE], [enabled |-> TRUE] }
NextDisabled ==
    \/ \E dt \in TickSteps, d \in LaterSnapshots : EvaluateAlerts(dt, d, "returns")
    \/ \E u \in EnabledUpdates : UpdateSettings(u)
    \/ \E id \in Range(activeAlerts) : DismissAlert(id)

SpecDisabled == Init /\ [][NextDisabled]_vars

----------------------------------------------------------------------------
(* Properties of the alert engine *)

\* The rule with the given id in a rule list.
RuleById(rs, r) == rs[CHOOSE i \in DOMAIN rs : rs[i].id = r]
\* The instances of rule r among the ids of a sequence.
InstancesOf(ids, hp, r) == {id \in Range(ids) : hp[id].ruleId = r}
\* The instances the step has constructed.
Created(r) == {id \in (DOMAIN heap') \ (DOMAIN heap) : heap'[id].ruleId = r}
\* The dwell of the claims, written out.
ThirtySeconds == 30 * 1000
\* An evaluateAlerts tick over data that runs its loop.
Tick(dt, d) == EvaluateAlerts(dt, d, "returns") /\ settings.enabled
\* The run of true observations of rule r that reaches the tick at now is
\* shorter than the dwell.
DwellNotMet(r) == r \notin DOMAIN condTrueSince \/ now - condTrueSince[r] < ThirtySeconds

\* C1: a rule without an alert instance whose condition has been observed true
\* for less than 30 seconds gets no instance in the active set, the history or
\* the returned list; a tick that observes the condition false deletes the
\* rule's dwell start time, and a dwell start time is never older than the
\* current run of true observations, so a later run counts from zero.
C1_DwellStartsWithinRun ==
    \A r \in DOMAIN alertConditionStartTime :
        /\ r \in DOMAIN condTrueSince
        /\ alertConditionStartTime[r] >= condTrueSince[r]
C1_DebounceStep ==
    \A dt \in TickSteps, d \in Snapshots : Tick(dt, d) =>
        \A r \in RuleIds :
            /\ (InstancesOf(activeAlerts, heap, r) = {}
                  /\ (DwellNotMet(r) \/ ~EvaluateRuleCondition(RuleById(rules, r), d)))
               => /\ Created(r) = {}
                  /\ InstancesOf(activeAlerts', heap', r) = {}
                  /\ InstancesOf(alertHistory', heap', r) = InstancesOf(alertHistory, heap, r)
                  /\ InstancesOf(newAlerts', heap', r) = {}
            /\ ~EvaluateRuleCondition(RuleById(rules, r), d)
               => r \notin DOMAIN alertConditionStartTime'
\* C1 over a behaviour: the invariant on the dwell start times and the step condition.
C1_Debounce == [](C1_DwellStartsWithinRun) /\ [][C1_DebounceStep]_vars
\* A tick has deleted the dwell start time of a rule that never got an instance.
C1_Witness ==
    \E r \in dwellCleared : \A id \in DOMAIN heap : heap[id].ruleId # r

\* C2: the tick that first sees the condition true records t0; while fewer than
\* 30 seconds have passed the record is kept; the first tick at or after
\* t0 + 30 s creates exactly one instance with status active, count 1 and
\* firstTriggeredAt = triggeredAt = the tick's time, which is in the active set,
\* the history and the returned list; while that instance stays active, later
\* true ticks create nothing and return nothing for the rule.
C2_MaterializeStep ==
    \A dt \in TickSteps, d \in Snapshots : Tick(dt, d) =>
        \A r \in RuleIds :
            LET met == EvaluateRuleCondition(RuleById(rules, r), d)
                none == InstancesOf(activeAlerts, heap, r) = {}
                waiting == r \in DOMAIN alertConditionStartTime
                active == {id \in InstancesOf(activeAlerts, heap, r) : heap[id].status = "active"}
            IN  /\ (met /\ none /\ ~waiting)
                   => r \in DOMAIN alertConditionStartTime' /\ alertConditionStartTime'[r] = now
                /\ (met /\ none /\ waiting /\ now - alertConditionStartTime[r] < ThirtySeconds)
                   => /\ r \in DOMAIN alertConditionStartTime'
                      /\ alertConditionStartTime'[r] = alertConditionStartTime[r]
                /\ (met /\ none /\ waiting /\ now - alertConditionStartTime[r] >= ThirtySeconds)
                   => /\ Cardinality(Created(r)) = 1
                      /\ InstancesOf(activeAlerts', heap', r) = Created(r)
                      /\ Created(r) \subseteq Range(alertHistory')
                      /\ \A id \in Created(r) :
                            /\ heap'[id].status = "active"
                            /\ heap'[id].count = 1
                            /\ heap'[id].firstTriggeredAt = now
                            /\ heap'[id].triggeredAt = now
                            /\ Len(SelectSeq(newAlerts', LAMBDA x : x = id)) = 1
                /\ (met /\ active # {})
                   => /\ Created(r) = {}
                      /\ InstancesOf(activeAlerts', heap', r) = InstancesOf(activeAlerts, heap, r)
                      /\ InstancesOf(newAlerts', heap', r) = {}
                      /\ \A id \in active : heap'[id].count = heap[id].count
\* C2 over a behaviour: every step meets the materialization condition.
C2_Materialize == [][C2_MaterializeStep]_vars
\* The last tick has returned an instance it created.
C2_Witness ==
    \E i \in DOMAIN newAlerts :
        /\ heap[newAlerts[i]].count = 1
        /\ heap[newAlerts[i]].status = "active"
        /\ heap[newAlerts[i]].firstTriggeredAt = heap[newAlerts[i]].triggeredAt
        /\ newAlerts[i] \in Range(activeAlerts) /\ newAlerts[i] \in Range(alertHistory)

\* C3: the active set holds at most one instance per rule id; a true tick for a
\* rule that has an instance creates no second one; an instance whose status
\* was not active is made active again with its count raised by exactly one,
\* and the count changes in no other way.
C3_OneInstancePerRule ==
    /\ \A r \in RuleIds : Cardinality(InstancesOf(activeAlerts, heap, r)) <= 1
    /\ \A i, j \in DOMAIN activeAlerts : activeAlerts[i] = activeAlerts[j] => i = j
C3_ReactivationStep ==
    /\ \A id \in (DOMAIN heap) \cap (DOMAIN heap') :
          /\ (heap[id].status # "active" /\ heap'[id].status = "active")
             => heap'[id].count = heap[id].count + 1
          /\ heap'[id].count # heap[id].count
             => heap[id].status # "active" /\ heap'[id].status = "active"
    /\ \A r \in RuleIds : InstancesOf(activeAlerts, heap, r) # {} => Created(r) = {}
\* C3 over a behaviour: the invariant on the active set and the step condition.
C3_SingleInstance == [](C3_OneInstancePerRule) /\ [][C3_ReactivationStep]_vars
\* An instance has been re-activated: it is active with a count above 1.
C3_Witness ==
    \E id \in Range(activeAlerts) :
        /\ heap[id].status = "active"
        /\ heap[id].count >= 2
        /\ heap[id].firstTriggeredAt < heap[id].triggeredAt

\* C4: a false tick for a rule with an active instance sets the instance's
\* status to resolved and its resolvedAt to the tick's time and leaves it in the
\* history and in the active map; the next true tick makes that same instance
\* active again, clears resolvedAt, returns it and creates no new instance.
C4_ResolveStep ==
    \A dt \in TickSteps, d \in Snapshots : Tick(dt, d) =>
        \A r \in RuleIds :
            LET met == EvaluateRuleCondition(RuleById(rules, r), d)
            IN  \A id \in InstancesOf(activeAlerts, heap, r) :
                   /\ (~met /\ heap[id].status = "active")
                      => /\ heap'[id].status = "resolved"
                         /\ heap'[id].resolvedAt = Some(now)
                         /\ id \in Range(activeAlerts')
                         /\ (id \in Range(alertHistory) => id \in Range(alertHistory'))
                   /\ (met /\ heap[id].status = "resolved")
                      => /\ heap'[id].status = "active"
                         /\ heap'[id].resolvedAt = None
                         /\ heap'[id].firstTriggeredAt = heap[id].firstTriggeredAt
                         /\ InstancesOf(activeAlerts', heap', r) = {id}
                         /\ Created(r) = {}
                         /\ id \in Range(newAlerts')
\* C4 over a behaviour: every step meets the resolution condition.
C4_Resolve == [][C4_ResolveStep]_vars
\* A resolved instance is in the active map and in the history.
C4_Witness ==
    \E id \in Range(activeAlerts) :
        /\ heap[id].status = "resolved"
        /\ heap[id].resolvedAt # None
        /\ id \in Range(alertHistory)
\* An instance resolved earlier has just been returned as active again.
C4_WitnessReactivated ==
    \E i \in DOMAIN newAlerts :
        /\ heap[newAlerts[i]].count >= 2
        /\ heap[newAlerts[i]].status = "active"
        /\ heap[newAlerts[i]].resolvedAt = None

\* C5: a tick leaves alone every rule that is disabled or whose metric value it
\* cannot resolve: the rule's dwell start time is kept, and an active instance
\* of the rule stays active with resolvedAt unset.
C5_SkipStep ==
    \A dt \in TickSteps, d \in Snapshots : Tick(dt, d) =>
        \A i \in DOMAIN rules :
            LET rule == rules[i]
                r == rule.id
            IN  (~rule.enabled \/ ExtractMetricValue(d, rule.metricPath) = None)
                => /\ r \in DOMAIN alertConditionStartTime
                      => /\ r \in DOMAIN alertConditionStartTime'
                         /\ alertConditionStartTime'[r] = alertConditionStartTime[r]
                   /\ \A id \in InstancesOf(activeAlerts, heap, r) :
                         heap[id].status = "active"
                         => /\ id \in DOMAIN heap'
                            /\ heap'[id].status = "active"
                            /\ heap'[id].resolvedAt = None
\* C5 over a behaviour: every tick leaves the skipped rules unchanged.
C5_SkippedRuleUnchanged == [][C5_SkipStep]_vars

\* C6: the notification calls of a tick are, in order, one for each returned
\* alert whose rule is critical while settings.browserNotifications is true, and
\* no others; an operation that is not a tick makes no call.
C6_NotifiedExactly ==
    LET due == SelectSeq(newAlerts,
                   LAMBDA id : /\ RuleById(rules, heap[id].ruleId).severity = "critical"
                               /\ settings.browserNotifications)
    IN  notified = [i \in DOMAIN due |-> heap[due[i]].ruleId]
\* A tick has returned a critical and a warning alert and notified once.
C6_Witness ==
    /\ Len(notified) = 1
    /\ Len(newAlerts) = 2
\* A tick has returned a critical alert with browser notifications switched off.
C6_WitnessSuppressed ==
    /\ notified = <<>>
    /\ ~settings.browserNotifications
    /\ \E i \in DOMAIN newAlerts : heap[newAlerts[i]].severity = "critical"

\* C7: a tick whose notification call throws leaves the active set, the
\* history, the dwell trackers, the persisted state and the returned list as the
\* same tick leaves them when the call returns.
C7_FaultStep ==
    \A dt \in TickSteps, d \in Snapshots :
        (EvaluateAlerts(dt, d, "throws") /\ settings.enabled) =>
            LET e == LoopEnd(d, now, "returns")
            IN  /\ activeAlerts' = e.activeAlerts
                /\ heap' = e.heap
                /\ alertHistory' = e.alertHistory
                /\ alertConditionStartTime' = e.alertConditionStartTime
                /\ newAlerts' = e.newAlerts
                /\ stored' = SaveToStorage(rules, settings, e.heap, e.alertHistory)
                /\ ~threw'
\* C7 over a behaviour: every tick whose notification throws ends as the returning tick.
C7_NotificationFailureIsolated == [][C7_FaultStep]_vars

----------------------------------------------------------------------------
(* Properties of the cluster switch and of the tracker *)

\* The entries of a persisted performance state.
StoreEntries(store) ==
    IF store = None THEN {} ELSE Range(store[1].history) \cup Range(store[1].chartData)

\* C8: the tracker that a cluster switch installs starts with empty history and
\* chart buffers; the tracker in use never holds an entry of another cluster
\* than the monitored one; the first addSnapshot for the new cluster returns
\* all-zero metrics; and no write to the persisted performance state after the
\* switch stores an entry of the previous cluster.
C8_SwitchStep ==
    /\ activeCluster' # activeCluster
       => /\ trackers'[Len(trackers')].history = <<>>
          /\ trackers'[Len(trackers')].chartData = <<>>
    /\ \A x \in Range(trackers'[Len(trackers')].history) : x.origin = activeCluster'
    /\ (snapshots' # snapshots
          /\ \A x \in Range(Current.history) : x.origin # activeCluster)
       => lastMetrics' = ZeroMetrics
    /\ (perfStore' # perfStore)
       => \A x \in StoreEntries(perfStore') : x.origin = activeCluster'
\* C8 over a behaviour: every step keeps the clusters' entries apart.
C8_SwitchIsolatesTracker == [][C8_SwitchStep]_vars

\* C9: at every evaluateAlerts tick, each dwell start time the engine holds was
\* recorded on the cluster that is monitored now: the switch has reset the
\* dwell trackers of the previous cluster.
C9_TickStep ==
    \A dt \in TickSteps, d \in Snapshots : EvaluateAlerts(dt, d, "returns") =>
        \A r \in DOMAIN alertConditionStartTime : dwellCluster[r] = activeCluster
\* C9 over a behaviour: every tick finds only dwell start times of the monitored cluster.
C9_SwitchResetsDwell == [][C9_TickStep]_vars

\* A metric that is not negative.
NonNegative(q) == q[1] >= 0 /\ q[2] > 0
NonNegativeMetrics(m) ==
    /\ NonNegative(m.indexingRate)
    /\ NonNegative(m.searchRate)
    /\ NonNegative(m.indexLatency)
    /\ NonNegative(m.searchLatency)

\* C10: the metrics the last addSnapshot returned, the metrics getCurrentMetrics
\* returns and every chart point are >= 0 in each of indexingRate, searchRate,
\* indexLatency and searchLatency.
C10_MetricsNonNegative ==
    /\ NonNegativeMetrics(lastMetrics)
    /\ NonNegativeMetrics(CalculateCurrentMetrics(Current.history))
    /\ \A x \in Range(Current.chartData) : NonNegativeMetrics(x)
\* addSnapshot has computed a rate over an interval in which a time counter
\* went down while its operation counter went up.
C10_Witness ==
    LET h == Current.history
        n == Len(h)
    IN  /\ n >= 2
        /\ h[n].timestamp - h[n - 1].timestamp >= 1000
        /\ h[n].totalIndexingOps > h[n - 1].totalIndexingOps
        /\ h[n].totalIndexTimeMs < h[n - 1].totalIndexTimeMs
        /\ lastMetrics.indexingRate[1] > 0
        /\ lastMetrics.indexLatency = RatZero

----------------------------------------------------------------------------
(* Properties of the metric computation *)

\* What getCurrentMetrics returns in this state.
CurrentMetrics == CalculateCurrentMetrics(Current.history)
\* The two most recent history entries are at least one second apart.
Trusted(h) == Len(h) >= 2 /\ h[Len(h)].timestamp - h[Len(h) - 1].timestamp >= 1000

\* C11: with fewer than 2 history entries, or with the two most recent entries
\* less than 1 second apart (a zero or negative difference included),
\* getCurrentMetrics returns zero in all four fields and so does the addSnapshot
\* that has just pushed the latest entry; no quotient has a zero denominator.
C11_ZeroGuards ==
    /\ ~Trusted(Current.history) => CurrentMetrics = ZeroMetrics
    /\ \A f \in DOMAIN CurrentMetrics : CurrentMetrics[f][2] > 0
C11_ReturnedStep ==
    (lastMetrics' # lastMetrics \/ snapshots' # snapshots)
        => (~Trusted(trackers'[Len(trackers')].history) => lastMetrics' = ZeroMetrics)
\* C11 over a behaviour: the guard holds in every state and for every returned value.
C11_ZeroMetricsWhenUntrusted == [](C11_ZeroGuards) /\ [][C11_ReturnedStep]_vars
\* The last two entries are half a second apart with counters that went up, and
\* an addSnapshot before them had returned a rate.
C11_Witness ==
    LET h == Current.history
        n == Len(h)
    IN  /\ n >= 2
        /\ h[n].timestamp - h[n - 1].timestamp = 500
        /\ h[n].totalIndexingOps > h[n - 1].totalIndexingOps
        /\ CurrentMetrics = ZeroMetrics
\* The last two entries carry the same timestamp.
C11_WitnessDuplicate ==
    LET h == Current.history
        n == Len(h)
    IN  /\ n >= 2
        /\ h[n].timestamp = h[n - 1].timestamp
        /\ h[n].totalIndexingOps > h[n - 1].totalIndexingOps
\* The clock was set back between the last two entries.
C11_WitnessNegative ==
    LET h == Current.history
        n == Len(h)
    IN  /\ n >= 2
        /\ h[n].timestamp < h[n - 1].timestamp
        /\ h[n].totalIndexingOps > h[n - 1].totalIndexingOps

\* The history with the indexing counters of every entry set to zero, and the
\* same for the search counters.
WithoutIndexing(h) ==
    [i \in DOMAIN h |-> [h[i] EXCEPT !.totalIndexingOps = 0, !.totalIndexTimeMs = 0]]
WithoutSearch(h) ==
    [i \in DOMAIN h |-> [h[i] EXCEPT !.totalSearchOps = 0, !.totalSearchTimeMs = 0]]

\* C12: over a trusted interval, an indexing operation counter that went down
\* gives indexingRate 0 and indexLatency 0, and the search metrics are what they
\* are without any indexing counters; the same with the two types exchanged.
C12_CounterResetClamp ==
    LET h == Current.history
        n == Len(h)
        m == CurrentMetrics
    IN  Trusted(h) =>
          /\ h[n].totalIndexingOps < h[n - 1].totalIndexingOps
             => /\ m.indexingRate = RatZero
                /\ m.indexLatency = RatZero
                /\ m.searchRate = CalculateCurrentMetrics(WithoutIndexing(h)).searchRate
                /\ m.searchLatency = CalculateCurrentMetrics(WithoutIndexing(h)).searchLatency
          /\ h[n].totalSearchOps < h[n - 1].totalSearchOps
             => /\ m.searchRate = RatZero
                /\ m.searchLatency = RatZero
                /\ m.indexingRate = CalculateCurrentMetrics(WithoutSearch(h)).indexingRate
                /\ m.indexLatency = CalculateCurrentMetrics(WithoutSearch(h)).indexLatency
\* getCurrentMetrics has returned zero indexing metrics and a search rate over
\* an interval in which the indexing counter went down.
C12_Witness ==
    LET h == Current.history
        n == Len(h)
    IN  /\ Trusted(h)
        /\ h[n].totalIndexingOps < h[n - 1].totalIndexingOps
        /\ h[n].totalIndexTimeMs > h[n - 1].totalIndexTimeMs
        /\ lastMetrics.indexingRate = RatZero
        /\ lastMetrics.indexLatency = RatZero
        /\ lastMetrics.searchRate = <<6, 1>>
        /\ lastMetrics.searchLatency = <<5, 1>>

\* The quotients of the claims, computed from the two most recent entries.
RawRate(cur, prev, dtMs) ==
    IF cur > prev THEN IntDivRat(cur - prev, Rat(dtMs, 1000)) ELSE RatZero
RawLatency(curMs, prevMs, cur, prev) ==
    IF cur > prev /\ curMs > prevMs THEN Rat(curMs - prevMs, cur - prev) ELSE RatZero
\* q > k for a quotient q >= 0 and an integer k.
Exceeds(q, k) ==
    (q[1] \div q[2]) > k \/ ((q[1] \div q[2]) = k /\ (q[1] % q[2]) # 0)
ReportedRate(q) == IF Exceeds(q, 50000000) THEN RatZero ELSE q
ReportedLatency(q) == IF Exceeds(q, 300000) THEN <<300000, 1>> ELSE q

\* C13: a computed rate above 50,000,000 per second is reported as 0 and a
\* computed latency above 300,000 ms as 300,000; a value at or below its cap is
\* reported unchanged; every reported rate is <= 50,000,000 and every reported
\* latency <= 300,000.
C13_SanityCaps ==
    LET h == Current.history
        n == Len(h)
        m == CurrentMetrics
    IN  /\ Trusted(h) =>
             LET dtMs == h[n].timestamp - h[n - 1].timestamp
             IN  /\ m.indexingRate
                      = ReportedRate(RawRate(h[n].totalIndexingOps, h[n - 1].totalIndexingOps, dtMs))
                 /\ m.searchRate
                      = ReportedRate(RawRate(h[n].totalSearchOps, h[n - 1].totalSearchOps, dtMs))
                 /\ m.indexLatency
                      = ReportedLatency(RawLatency(h[n].totalIndexTimeMs, h[n - 1].totalIndexTimeMs,
                                                   h[n].totalIndexingOps, h[n - 1].totalIndexingOps))
                 /\ m.searchLatency
                      = ReportedLatency(RawLatency(h[n].totalSearchTimeMs, h[n - 1].totalSearchTimeMs,
                                                   h[n].totalSearchOps, h[n - 1].totalSearchOps))
        /\ \A x \in {m, lastMetrics} :
              /\ ~Exceeds(x.indexingRate, 50000000)
              /\ ~Exceeds(x.searchRate, 50000000)
              /\ ~Exceeds(x.indexLatency, 300000)
              /\ ~Exceeds(x.searchLatency, 300000)
\* getCurrentMetrics has returned a rate of exactly 50,000,000 unchanged and 0
\* for a rate of 50,000,001.
C13_Witness ==
    LET h == Current.history
        n == Len(h)
    IN  /\ Trusted(h)
        /\ h[n].totalSearchOps - h[n - 1].totalSearchOps = 500000010
        /\ h[n].timestamp - h[n - 1].timestamp = 10 * 1000
        /\ lastMetrics.indexingRate = <<50000000, 1>>
        /\ lastMetrics.searchRate = RatZero
\* getCurrentMetrics has returned a latency of exactly 300,000 unchanged and
\* 300,000 for a latency of 300,001.
C13_WitnessLatency ==
    LET h == Current.history
        n == Len(h)
    IN  /\ Trusted(h)
        /\ h[n].totalSearchOps - h[n - 1].totalSearchOps = 1
        /\ h[n].totalSearchTimeMs - h[n - 1].totalSearchTimeMs = 300001
        /\ h[n].totalIndexTimeMs - h[n - 1].totalIndexTimeMs = 300000
        /\ lastMetrics.indexLatency = <<300000, 1>>
        /\ lastMetrics.searchLatency = <<300000, 1>>

\* C14: over a trusted interval whose quotients are within the caps, the rate is
\* max(0, latest ops - previous ops) / dt seconds and the latency is
\* max(0, latest time - previous time) / ops delta when the ops delta is
\* positive, else 0; entries older than the last two have no influence; ops
\* 1000 -> 1100 and time 5000 -> 5600 ms over 10 s give rate 10 and latency 6.
C14_LastTwoEntries ==
    LET h == Current.history
        n == Len(h)
        m == CurrentMetrics
    IN  Trusted(h) =>
          LET dtMs == h[n].timestamp - h[n - 1].timestamp
              rate == RawRate(h[n].totalIndexingOps, h[n - 1].totalIndexingOps, dtMs)
              latency == RawLatency(h[n].totalIndexTimeMs, h[n - 1].totalIndexTimeMs,
                                    h[n].totalIndexingOps, h[n - 1].totalIndexingOps)
              searchRate == RawRate(h[n].totalSearchOps, h[n - 1].totalSearchOps, dtMs)
              searchLatency == RawLatency(h[n].totalSearchTimeMs, h[n - 1].totalSearchTimeMs,
                                          h[n].totalSearchOps, h[n - 1].totalSearchOps)
          IN  /\ ~Exceeds(rate, 50000000) => m.indexingRate = rate
              /\ ~Exceeds(latency, 300000) => m.indexLatency = latency
              /\ ~Exceeds(searchRate, 50000000) => m.searchRate = searchRate
              /\ ~Exceeds(searchLatency, 300000) => m.searchLatency = searchLatency
              /\ m = CalculateCurrentMetrics(<<h[n - 1], h[n]>>)
              /\ (/\ dtMs = 10 * 1000
                  /\ h[n - 1].totalIndexingOps = 1000 /\ h[n].totalIndexingOps = 1100
                  /\ h[n - 1].totalIndexTimeMs = 5000 /\ h[n].totalIndexTimeMs = 5600)
                 => m.indexingRate = <<10, 1>> /\ m.indexLatency = <<6, 1>>
\* addSnapshot has returned metrics over a history of three entries whose
\* oldest entry differs from the one before the latest.
C14_Witness ==
    LET h == Current.history
        n == Len(h)
    IN  /\ n = 3
        /\ Trusted(h)
        /\ h[1].totalIndexingOps # h[2].totalIndexingOps
        /\ h[3].totalIndexingOps > h[2].totalIndexingOps
        /\ lastMetrics = CurrentMetrics
        /\ lastMetrics.indexingRate[1] > 0
\* getCurrentMetrics has returned rate 10 and latency 6 for the example.
C14_WitnessExample ==
    LET h == Current.history
        n == Len(h)
    IN  /\ n = 2
        /\ h[1].totalIndexingOps = 1000 /\ h[2].totalIndexingOps = 1100
        /\ lastMetrics.indexingRate = <<10, 1>>
        /\ lastMetrics.indexLatency = <<6, 1>>

----------------------------------------------------------------------------
(* Properties of the tracker's buffers *)

\* C15: no tracker holds more than 120 history entries or more than 60 chart
\* points, whatever the interleaving of construction over the store,
\* addSnapshot, the sweeps and clearData; addSnapshot appends its entry and its
\* chart point and keeps the most recent ones in insertion order.
C15_BuffersBounded ==
    \A i \in DOMAIN trackers :
        /\ Len(trackers[i].history) <= 120
        /\ Len(trackers[i].chartData) <= 60
\* s2 is s1 with x appended, cut to its most recent cap elements.
AppendedWithin(s1, s2, x, cap) ==
    LET n1 == Len(s1)
        n2 == Len(s2)
    IN  /\ n2 = (IF n1 + 1 > cap THEN cap ELSE n1 + 1)
        /\ s2[n2] = x
        /\ \A k \in 1..(n2 - 1) : s2[k] = s1[k + (n1 + 1 - n2)]
C15_AddSnapshotStep ==
    snapshots' # snapshots =>
        LET old == trackers[Len(trackers)]
            new == trackers'[Len(trackers')]
        IN  /\ Len(new.history) >= 1 /\ Len(new.chartData) >= 1
            /\ new.history[Len(new.history)].timestamp = now'
            /\ AppendedWithin(old.history, new.history, new.history[Len(new.history)], 120)
            /\ AppendedWithin(old.chartData, new.chartData,
                              new.chartData[Len(new.chartData)], 60)
\* C15 over a behaviour: the bounds in every state and the order at every addSnapshot.
C15_BoundedBuffers == [](C15_BuffersBounded) /\ [][C15_AddSnapshotStep]_vars
\* Two addSnapshot calls on full buffers have left both at their bounds.
C15_Witness ==
    /\ snapshots >= 2
    /\ Len(Current.history) = 120
    /\ Len(Current.chartData) = 60
    /\ Current.history[120].timestamp = now

\* C16: from clearData on, while only addSnapshot is called, the tracker's
\* history and chart buffers and the persisted state are those of a tracker
\* constructed over an empty store at the moment of clearData and given the
\* same snapshots, and addSnapshot returns that tracker's metrics, which are
\* zero until it has two snapshots.
C16_SameAsFresh ==
    fresh # None =>
        /\ Current.history = fresh[1].tracker.history
        /\ Current.chartData = fresh[1].tracker.chartData
        /\ perfStore = fresh[1].store
        /\ CurrentMetrics = CalculateCurrentMetrics(fresh[1].tracker.history)
C16_ReturnedStep ==
    (snapshots' # snapshots /\ fresh' # None) =>
        /\ lastMetrics' = CalculateCurrentMetrics(fresh'[1].tracker.history)
        /\ Len(fresh'[1].tracker.history) < 2 => lastMetrics' = ZeroMetrics
\* C16 over a behaviour: the state and every returned value match the fresh tracker's.
C16_ClearDataIsFresh == [](C16_SameAsFresh) /\ [][C16_ReturnedStep]_vars
\* clearData was called on a tracker that held entries, and two snapshots have
\* been added since.
C16_Witness ==
    /\ fresh # None
    /\ Len(fresh[1].tracker.history) = 2
    /\ Len(Current.history) = 2
    /\ lastMetrics.indexingRate[1] > 0
    /\ Len(trackers[1].history) >= 2 \/ Len(trackers) > 1

\* C17: after every addSnapshot the persisted history is the whole history
\* buffer and the persisted chart data the whole chart buffer, and a tracker
\* constructed from the persisted state at once has the same buffers.
C17_AddSnapshotStep ==
    snapshots' # snapshots =>
        LET new == trackers'[Len(trackers')]
        IN  /\ perfStore' # None
            /\ perfStore'[1].history = new.history
            /\ perfStore'[1].chartData = new.chartData
            /\ NewTracker(perfStore', now').history = new.history
            /\ NewTracker(perfStore', now').chartData = new.chartData
C17_PersistsWholeBuffers == [][C17_AddSnapshotStep]_vars

----------------------------------------------------------------------------
(* Properties of the alert history, the statistics and the persisted state *)

\* C18: no entry of the alert history has a triggeredAt more than
\* settings.maxHistoryDays days before the current time.
C18_HistoryWithinRetention ==
    \A id \in Range(alertHistory) :
        LET age == now - heap[id].triggeredAt
        IN  \/ age \div DayMs < settings.maxHistoryDays
            \/ (age \div DayMs = settings.maxHistoryDays /\ age % DayMs = 0)

\* The number of entries of the alert history with a status.
InHistoryWithStatus(st) ==
    Len(SelectSeq(alertHistory, LAMBDA id : heap[id].status = st))
\* The number of instances of the active set with status active.
ActiveNow == Len(SelectSeq(activeAlerts, LAMBDA id : heap[id].status = "active"))

\* C19: in getAlertStats, bySeverity and byCategory each sum to the number of
\* active alerts, and total, active, resolved and snoozed are the numbers of
\* history entries: all of them, and those with status active, resolved and
\* snoozed.
C19_StatsFromHistory ==
    LET stats == GetAlertStats
    IN  /\ stats.bySeverity["critical"] + stats.bySeverity["warning"]
              + stats.bySeverity["info"] = ActiveNow
        /\ stats.byCategory["cluster"] + stats.byCategory["performance"]
              + stats.byCategory["resource"] + stats.byCategory["index"] = ActiveNow
        /\ stats.total = Len(alertHistory)
        /\ stats.resolved = InHistoryWithStatus("resolved")
        /\ stats.snoozed = InHistoryWithStatus("snoozed")
        /\ stats.active = InHistoryWithStatus("active")

\* C20: once an operation has written the store, the persisted rules, settings
\* and history are the rules, the settings and the history entries the engine
\* holds; before the first write the engine holds what it was constructed with.
C20_PersistedIsCurrent ==
    IF stored.rules = None
    THEN /\ stored.settings = None /\ stored.history = None
         /\ rules = DEFAULT_ALERT_RULES
         /\ settings = DEFAULT_ALERT_SETTINGS
         /\ alertHistory = <<>>
    ELSE /\ stored.rules = Some(rules)
         /\ stored.settings = Some(settings)
         /\ stored.history = Some([i \in DOMAIN alertHistory |-> heap[alertHistory[i]]])
\* The store holds a history entry that a tick has resolved and a rule that
\* updateRule has changed.
C20_Witness ==
    /\ stored.history # None
    /\ \E i \in DOMAIN stored.history[1] : stored.history[1][i].status = "resolved"
    /\ \E i \in DOMAIN stored.rules[1] : ~stored.rules[1][i].enabled
\* The store holds a history entry that snoozeAlert has changed.
C20_WitnessSnoozed ==
    /\ stored.history # None
    /\ \E i \in DOMAIN stored.history[1] :
          /\ stored.history[1][i].status = "snoozed"
          /\ stored.history[1][i].snoozedUntil # None

----------------------------------------------------------------------------
(* Properties of the engine over a store that fails or holds stale content *)

\* A read of the store that fails: getItem throws, or a key holds a text that is
\* not JSON.
ReadFails(ro) ==
    ro = "throws" \/ Unparsable \in {stored.rules, stored.settings, stored.history}

\* C21: a construction whose read of the store throws or meets invalid JSON
\* completes with the default rules and the default settings; an operation whose
\* write throws returns normally and the in-memory state holds its result
\* (the setting or the rule is updated, the alert is snoozed or out of the
\* active set, the history is empty, the defaults are back, the alerts a tick
\* returns are active).
C21_LoadStep ==
    \A dt \in LoadSteps, ro \in ReadOutcomes :
        (Construct(dt, ro) /\ ReadFails(ro)) =>
            /\ rules' = DEFAULT_ALERT_RULES
            /\ settings' = DEFAULT_ALERT_SETTINGS
            /\ ~threw'
C21_WriteStep ==
    writesAccepted < 3 =>
        /\ (LoadOperation \/ \E dt \in LoadSteps, d \in LoadSnapshots :
                                  EvaluateAlerts(dt, d, "returns")) => ~threw'
        /\ \A dt \in LoadSteps, d \in LoadSnapshots : EvaluateAlerts(dt, d, "returns") =>
              \A i \in DOMAIN newAlerts' :
                  /\ newAlerts'[i] \in Range(activeAlerts')
                  /\ heap'[newAlerts'[i]].status = "active"
        /\ \A id \in Range(activeAlerts), m \in SnoozeMinutes :
              (SnoozeAlert(id, m) /\ heap[id].status = "active") =>
                  /\ heap'[id].status = "snoozed"
                  /\ heap'[id].snoozedUntil = Some(now + m * 60 * 1000)
        /\ \A id \in Range(activeAlerts) : DismissAlert(id) => id \notin Range(activeAlerts')
        /\ \A u \in LoadRuleUpdates : UpdateRule(u[1], u[2]) =>
              \A i \in DOMAIN rules' :
                  rules'[i].id = u[1] /\ (\A j \in 1..(i - 1) : rules'[j].id # u[1])
                     => \A f \in DOMAIN u[2] : rules'[i][f] = u[2][f]
        /\ \A u \in LoadSettingsUpdates : UpdateSettings(u) =>
              \A f \in DOMAIN u : settings'[f] = u[f]
        /\ ClearAlertHistory => alertHistory' = <<>>
        /\ ResetToDefaults => rules' = DEFAULT_ALERT_RULES /\ settings' = DEFAULT_ALERT_SETTINGS
C21_PersistenceFailuresNotFatal == [][C21_LoadStep /\ C21_WriteStep]_vars
\* The store rejects writes, an operation has changed the settings in memory,
\* and the store does not hold them.
C21_Witness ==
    /\ writesAccepted < 3
    /\ ~threw
    /\ settings # DEFAULT_ALERT_SETTINGS
    /\ stored.settings # Some(settings)
\* A key of the store is not JSON and the engine holds the defaults.
C21_WitnessLoad ==
    /\ Unparsable \in {stored.rules, stored.settings, stored.history}
    /\ rules = DEFAULT_ALERT_RULES
    /\ settings = DEFAULT_ALERT_SETTINGS
    /\ alertHistory = <<>>

\* The retired identifiers and names, and what the renamed ones become.
RetiredIds == {"high-document-count", "medium-disk-usage", "low-search-activity"}
RetiredNames == {"High Document Count", "Medium Disk Usage", "Low Search Activity"}
Carries(idv, namev) == idv \in RetiredIds \/ namev \in RetiredNames
Dropped(idv, namev) == idv = "high-document-count" \/ namev = "High Document Count"
UniqueIds(rs) == \A i, j \in DOMAIN rs : rs[i].id = rs[j].id => i = j
\* The history entries of the store that are within the retention at time t.
Retained(h, st, t) ==
    SelectSeq(h, LAMBDA a : (t - a.triggeredAt) \div DayMs < st.maxHistoryDays)

\* C22: a construction over a persisted rule list and history completes, and
\* afterwards no rule and no history entry carries a retired id or name: the
\* 'high-document-count' entries are dropped, the other rules and the retained
\* entries are kept in order, unchanged unless they carried a retired id or
\* name, and the rule ids are unique as they were in the store.
C22_MigrationStep ==
    \A dt \in LoadSteps :
        (/\ Construct(dt, "returns")
         /\ stored.rules \notin {None, Unparsable}
         /\ stored.settings # Unparsable
         /\ stored.history # Unparsable) =>
            LET persistedHistory == IF stored.history = None THEN <<>> ELSE stored.history[1]
                persistedSettings == IF stored.settings = None THEN DEFAULT_ALERT_SETTINGS
                                     ELSE stored.settings[1]
                keptRules == SelectSeq(stored.rules[1], LAMBDA r : ~Dropped(r.id, r.name))
                keptEntries == SelectSeq(Retained(persistedHistory, persistedSettings, now'),
                                         LAMBDA a : ~Dropped(a.ruleId, a.ruleName))
            IN  /\ ~threw'
                /\ \A i \in DOMAIN rules' : ~Carries(rules'[i].id, rules'[i].name)
                /\ \A i \in DOMAIN alertHistory' :
                      ~Carries(heap'[alertHistory'[i]].ruleId, heap'[alertHistory'[i]].ruleName)
                /\ Len(rules') = Len(keptRules)
                /\ \A i \in DOMAIN keptRules :
                      ~Carries(keptRules[i].id, keptRules[i].name) => rules'[i] = keptRules[i]
                /\ Len(alertHistory') = Len(keptEntries)
                /\ \A i \in DOMAIN keptEntries :
                      ~Carries(keptEntries[i].ruleId, keptEntries[i].ruleName)
                         => heap'[alertHistory'[i]] = keptEntries[i]
                /\ UniqueIds(stored.rules[1]) => UniqueIds(rules')
----------------------------------------------------------------------------
(* Properties of snoozing, dismissal, cooldown and the disabled engine *)

\* The alert is snoozed and its snoozedUntil is later than the time t.
SnoozedAt(hp, id, t) ==
    /\ hp[id].status = "snoozed"
    /\ hp[id].snoozedUntil # None
    /\ t < hp[id].snoozedUntil[1]

\* C23: an alert snoozed by snoozeAlert(id, N) is not among getActiveAlerts(),
\* and a tick before its snoozedUntil leaves it snoozed, does not return it and
\* sends no notification for it, whatever the rule's condition on that tick.
C23_NotActiveWhileSnoozed ==
    \A id \in Range(activeAlerts) :
        SnoozedAt(heap, id, now) =>
            \A i \in DOMAIN GetActiveAlerts : GetActiveAlerts[i].id # id
C23_SnoozeStep ==
    \A dt \in TickSteps, d \in Snapshots : Tick(dt, d) =>
        \A id \in Range(activeAlerts) :
            SnoozedAt(heap, id, now) =>
                /\ heap'[id].status = "snoozed"
                /\ id \notin Range(newAlerts')
                /\ heap[id].ruleId \notin Range(notified')
C23_SnoozeHolds == [](C23_NotActiveWhileSnoozed) /\ [][C23_SnoozeStep]_vars

\* C24: dismissAlert(id) takes the instance out of the active set and leaves the
\* history list and every alert object, the rules, the settings and the dwell
\* start times as they were; for an unknown id the active set stays too.  No
\* dwell is running for the dismissed instance's rule, and a tick creates an
\* instance only with count 1 and at least 30 seconds after the dwell start time
\* recorded for its rule, so a rule whose condition still holds gets its new instance
\* after a fresh dwell.
C24_DismissStep ==
    \A id \in Range(activeAlerts) \cup {UnknownAlertId} : DismissAlert(id) =>
        /\ activeAlerts' = SelectSeq(activeAlerts, LAMBDA x : x # id)
        /\ alertHistory' = alertHistory
        /\ \A h \in Range(alertHistory) \cup Range(activeAlerts') : heap'[h] = heap[h]
        /\ rules' = rules
        /\ settings' = settings
        /\ alertConditionStartTime' = alertConditionStartTime
        /\ lastEvaluationTime' = lastEvaluationTime
        /\ id \notin Range(activeAlerts) => (activeAlerts' = activeAlerts /\ heap' = heap)
        /\ id \in Range(activeAlerts) => heap[id].ruleId \notin DOMAIN alertConditionStartTime'
C24_CreateStep ==
    \A dt \in ActiveSteps, d \in LaterSnapshots : Tick(dt, d) =>
        \A r \in RuleIds : \A a \in Created(r) :
            /\ heap'[a].count = 1
            /\ heap'[a].status = "active"
            /\ r \in DOMAIN alertConditionStartTime
            /\ now - alertConditionStartTime[r] >= ThirtySeconds
            /\ \A h \in Range(alertHistory) :
                  heap[h].ruleId = r => alertConditionStartTime[r] >= heap[h].triggeredAt
C24_DismissOnlyRemoves == [][C24_DismissStep /\ C24_CreateStep]_vars
\* A rule has a dismissed instance, which is still in the history, and a new
\* active instance with count 1 created at least 30 seconds later.
C24_Witness ==
    \E a \in Range(activeAlerts), h \in Range(alertHistory) :
        /\ h \notin Range(activeAlerts)
        /\ heap[h].ruleId = heap[a].ruleId
        /\ heap[a].count = 1
        /\ heap[a].status = "active"
        /\ heap[a].triggeredAt >= heap[h].triggeredAt + ThirtySeconds

\* The rules with other cooldowns: cd gives the cooldownMinutes of each rule.
CooldownValues == {0, 5}
WithCooldowns(rs, cd) == [i \in DOMAIN rs |-> [rs[i] EXCEPT !.cooldownMinutes = cd[i]]]
\* What the loop of evaluateAlerts leaves at time now when the rules are rs.
LoopEndWith(rs, data) ==
    EvalLoop(LoopStart, rs, 1, data,
             [settings |-> settings, now |-> now, clusterName |-> activeCluster,
              outcome |-> "returns"])

C25_WitnessNew ==
    \E a \in Range(activeAlerts), h \in Range(alertHistory) :
        /\ h # a
        /\ heap[h].ruleId = heap[a].ruleId
        /\ RuleById(rules, heap[a].ruleId).cooldownMinutes = 5
        /\ heap[a].triggeredAt - heap[h].triggeredAt < 5 * 60 * 1000

----------------------------------------------------------------------------
(* Properties of the tracker's sweep *)

TenMinutes == 10 * 60 * 1000
\* The entries of a buffer that are newer than ten minutes at time t, in order.
NewerThanTenMinutes(buffer, t) == SelectSeq(buffer, LAMBDA x : x.timestamp > t - TenMinutes)

\* C26: a run of the sweep leaves in the history buffer and in the chart buffer
\* exactly the entries whose timestamp is newer than ten minutes before the
\* sweep, in their order, and rewrites the persisted state from them; an
\* addSnapshot on a tracker whose history is empty returns all-zero metrics.
C26_SweepStep ==
    /\ \A i \in DOMAIN trackers : Sweep(i) =>
          /\ trackers'[i].history = NewerThanTenMinutes(trackers[i].history, now)
          /\ trackers'[i].chartData = NewerThanTenMinutes(trackers[i].chartData, now)
          /\ \A k \in DOMAIN trackers'[i].history :
                now - trackers'[i].history[k].timestamp < TenMinutes
          /\ \A k \in DOMAIN trackers'[i].chartData :
                now - trackers'[i].chartData[k].timestamp < TenMinutes
          /\ perfStore' = Some([history |-> trackers'[i].history,
                                chartData |-> trackers'[i].chartData])
    /\ \A dt \in SweepSteps, ns \in BufferAnswers :
          (AddSnapshot(dt, ns) /\ Current.history = <<>>) => lastMetrics' = ZeroMetrics
C26_SweepEvicts == [][C26_SweepStep]_vars
\* A sweep has emptied the buffers of a tracker that had taken snapshots and
\* returned metrics, and the persisted state holds the empty buffers.
C26_Witness ==
    /\ snapshots >= 2
    /\ lastMetrics # ZeroMetrics
    /\ Current.history = <<>>
    /\ Current.chartData = <<>>
    /\ perfStore = Some([history |-> <<>>, chartData |-> <<>>])
\* A sweep has evicted the older entries and kept the newer ones.
C26_WitnessPartial ==
    /\ snapshots = MaxSnapshots
    /\ Len(Current.history) \in 1..(MaxSnapshots - 1)
    /\ perfStore = Some([history |-> Current.history, chartData |-> Current.chartData])
    /\ lastMetrics # ZeroMetrics

----------------------------------------------------------------------------
(* C27: aborted fetches *)

FetchIds(fl) == {fl[i].id : i \in DOMAIN fl}
FetchOf(fl, id) == fl[CHOOSE i \in DOMAIN fl : fl[i].id = id]
\* The fetches that settle in the step.
Settling == FetchIds(inFlight) \ FetchIds(inFlight')
ReachesTrackerOrEngine ==
    \/ snapshots' # snapshots
    \/ trackerVars' # trackerVars
    \/ engineVars' # engineVars
    \/ evaluated' # None
    \/ newAlerts' # <<>>
    \/ notified' # <<>>

\* The fetch in flight that is not aborted is the one that owns the controller
\* in the ref, so there is at most one.
C27_OneOwner ==
    /\ \A i \in DOMAIN inFlight :
          ~inFlight[i].aborted <=> abortControllerRef = Some(inFlight[i].id)
    /\ \A i, j \in DOMAIN inFlight : inFlight[i].id = inFlight[j].id => i = j
    /\ abortControllerRef # None => abortControllerRef[1] \in FetchIds(inFlight)

\* A fetchAll that starts leaves every earlier fetch in flight aborted and owns
\* the controller itself.
C27_StartStep ==
    fetchCount' # fetchCount =>
        /\ fetchCount' = fetchCount + 1
        /\ abortControllerRef' = Some(fetchCount')
        /\ FetchIds(inFlight') = FetchIds(inFlight) \cup {fetchCount'}
        /\ \A id \in FetchIds(inFlight) : FetchOf(inFlight', id).aborted
        /\ ~FetchOf(inFlight', fetchCount').aborted
        /\ ~ReachesTrackerOrEngine \/ activeCluster' # activeCluster

\* An aborted fetch settles without a call to the tracker or the engine and
\* without a change of error or connectionFailed.
C27_AbortedStep ==
    \A id \in Settling :
        FetchOf(inFlight, id).aborted =>
            /\ ~ReachesTrackerOrEngine
            /\ error' = error
            /\ connectionFailed' = connectionFailed

\* A step that calls addSnapshot or evaluateAlerts settles one fetch, which
\* was not aborted, owned the controller and was sent to the active cluster;
\* addSnapshot is called once, and the snapshot evaluateAlerts gets carries
\* the metrics that call returned.
C27_PollStep ==
    (snapshots' # snapshots \/ evaluated' # None) =>
        /\ \E id \in Settling :
              /\ Settling = {id}
              /\ ~FetchOf(inFlight, id).aborted
              /\ abortControllerRef = Some(id)
              /\ FetchOf(inFlight, id).cluster = activeCluster
        /\ activeCluster' = activeCluster
        /\ snapshots' = snapshots + 1
        /\ Len(Current'.history) >= 1
        /\ Current'.history[Len(Current'.history)].timestamp = now
        /\ lastMetrics' = CalculateCurrentMetrics(Current'.history)
        /\ evaluated' # None
        /\ evaluated'[1].performanceMetrics = lastMetrics'
        /\ error' = error

\* C27: starting fetchAll aborts the fetch in flight, at most one fetch owns
\* the abort controller, an aborted fetch calls neither addSnapshot nor
\* evaluateAlerts and sets no error, and a successful poll calls addSnapshot
\* exactly once and evaluateAlerts after it, with the metrics it returned.
C27_AbortedNeverReachEngine ==
    /\ []C27_OneOwner
    /\ [][C27_StartStep /\ C27_AbortedStep /\ C27_PollStep]_vars

\* A fetch aborted by a newer one is still to settle, after a poll succeeded.
C27_Witness ==
    /\ snapshots >= 1
    /\ \E i \in DOMAIN inFlight :
          /\ inFlight[i].aborted
          /\ inFlight[i].cluster = activeCluster
          /\ abortControllerRef # None

\* A fetch aborted by a switch of the cluster is still to settle.
C27_WitnessSwitch ==
    \E i \in DOMAIN inFlight :
        inFlight[i].aborted /\ inFlight[i].cluster # activeCluster

\* On the first cluster two fetches were started and both have settled, one
\* of them feeding the tracker and the engine, the other aborted.
C27_WitnessSettled ==
    /\ activeCluster = "A"
    /\ Len(trackers) = 1
    /\ fetchCount = 2
    /\ inFlight = <<>>
    /\ snapshots = 1
    /\ evaluated # None

----------------------------------------------------------------------------
(* C30: polling and the fetch in flight *)

\* C30: with polling enabled, a cluster that answers every request within
\* the request timeout and no cluster switch, some fetchAll eventually
\* completes and feeds a snapshot to addSnapshot and evaluateAlerts.
C30_PollingCompletes == <>(snapshots > 0 /\ evaluated # None)

\* Every answer of the model arrives within the request timeout.
C30_AnswersInTime == \A l \in Latencies : l <= apiConfig.requestTimeoutMs

----------------------------------------------------------------------------
(* C28: the rule on search activity *)

ActiveOf(ruleId) ==
    \E id \in Range(activeAlerts) : heap[id].ruleId = ruleId /\ heap[id].status = "active"

\* C28: once the tracker has reported a search rate of 0 on ticks that span 30
\* seconds or more, an active 'no-search-activity' alert exists.
C28_NoSearchActivityFires ==
    (snapshots >= 3 /\ lastMetrics.searchRate = RatZero) => ActiveOf("no-search-activity")

\* The same polls raise the alert of the rule on indexing activity, whose
\* condition is 'equals 0', when the indexing rate is 0 throughout.
C28_IndexingRuleFires ==
    /\ snapshots >= 3
    /\ ActiveOf("no-indexing-activity")
    /\ ~ActiveOf("no-search-activity")

----------------------------------------------------------------------------
(* C29: the disabled engine *)

\* A tick while the engine is disabled returns an empty list, sends no
\* notification and leaves the engine and the persisted state as they are.
C29_DisabledTick ==
    (~settings.enabled /\ now' # now) =>
        /\ newAlerts' = <<>>
        /\ notified' = <<>>
        /\ ~threw'
        /\ dwellCleared' = {}
        /\ engineVars' = engineVars

\* Disabling or enabling the engine changes the settings only, and saves.
C29_Toggle ==
    (settings'.enabled # settings.enabled) =>
        /\ UNCHANGED <<rules, activeAlerts, heap, alertHistory, alertConditionStartTime,
                       lastEvaluationTime>>
        /\ newAlerts' = <<>>
        /\ notified' = <<>>

\* C29: while settings.enabled is false evaluateAlerts returns an empty list
\* and leaves active set, statuses, history, dwell start times and persisted
\* state unchanged, and sends no notification; so that a dwell start time
\* recorded before disabling is in place when the engine is enabled again.
C29_DisabledEngineIsFrozen == [][C29_DisabledTick /\ C29_Toggle]_vars

\* The engine is enabled again and holds a dwell start time a minute old or
\* older, which ticks at most 30 seconds apart never leave without an alert
\* while the engine is enabled.
C29_Witness ==
    /\ settings.enabled
    /\ \E r \in DOMAIN alertConditionStartTime :
          /\ now - alertConditionStartTime[r] >= 60 * 1000
          /\ \A id \in Range(activeAlerts) : heap[id].ruleId # r

\* The engine is disabled and holds an active alert raised 45 seconds ago or
\* earlier, so that a tick has followed the one that raised it.
C29_WitnessDisabled ==
    /\ ~settings.enabled
    /\ \E id \in Range(activeAlerts) :
          heap[id].status = "active" /\ now - heap[id].triggeredAt >= 45 * 1000

====
